---- MODULE Spec2Model ----
(***************************************************************************)
(* Model of the query-processing pipeline of the RAG backend:              *)
(* src/src/api/routes/query.py (query_endpoint) and the services it calls  *)
(* (validation, embedding, retrieval, generation, citation) together with  *)
(* the response formatters.                                                *)
(*                                                                         *)
(* Conventions                                                             *)
(*  - a Python str is a sequence of one-character strings                  *)
(*  - an Optional[T] value is a set with at most one element: None is {}   *)
(*    and a present value x is {x}                                         *)
(*  - a float score is an integer number of hundredths (0.85 is 85)        *)
(*  - a dict is a record; a key that is absent is absent from its DOMAIN   *)
(*  - an f-string is the tuple of its constant text and its arguments      *)
(*  - timestamps are left out of requests, passages and responses         *)
(*  - one coroutine of query_endpoint runs per slot; pc is the numbered    *)
(*    step of query_endpoint the coroutine is about to execute             *)
(***************************************************************************)
EXTENDS Integers, Sequences, FiniteSets, TLC

\* ------------------------------------------------------------------------
\* Python values

None == {}

Some(x) == {x}

Val(o) == CHOOSE x \in o : TRUE

\* dict.get(key, default)
Get(d, key, default) == IF key \in DOMAIN d THEN d[key] ELSE default

SetMin(S) == CHOOSE x \in S : \A y \in S : x <= y

SetMax(S) == CHOOSE x \in S : \A y \in S : x >= y

\* ------------------------------------------------------------------------
\* Python str operations, on sequences of characters

LowerLetters ==
  <<"a", "b", "c", "d", "e", "f", "g", "h", "i", "j", "k", "l", "m",
    "n", "o", "p", "q", "r", "s", "t", "u", "v", "w", "x", "y", "z">>

UpperLetters ==
  <<"A", "B", "C", "D", "E", "F", "G", "H", "I", "J", "K", "L", "M",
    "N", "O", "P", "Q", "R", "S", "T", "U", "V", "W", "X", "Y", "Z">>

Digits == {"0", "1", "2", "3", "4", "5", "6", "7", "8", "9"}

IsSpace(c) == c \in {" ", "\t", "\n", "\r"}

IsLower(c) == \E i \in 1..26 : LowerLetters[i] = c

IsUpper(c) == \E i \in 1..26 : UpperLetters[i] = c

IsLetter(c) == IsLower(c) \/ IsUpper(c)

LowerChar(c) ==
  IF IsUpper(c) THEN LowerLetters[CHOOSE i \in 1..26 : UpperLetters[i] = c]
  ELSE c

UpperChar(c) ==
  IF IsLower(c) THEN UpperLetters[CHOOSE i \in 1..26 : LowerLetters[i] = c]
  ELSE c

\* str.lower()
Lower(s) == [i \in 1..Len(s) |-> LowerChar(s[i])]

\* str.title(): a letter that follows a non-letter is upper-cased, any other
\* letter is lower-cased
Title(s) ==
  [i \in 1..Len(s) |->
     IF i = 1 \/ ~IsLetter(s[i - 1]) THEN UpperChar(s[i]) ELSE LowerChar(s[i])]

\* str.strip()
Strip(s) ==
  LET keep == {i \in 1..Len(s) : ~IsSpace(s[i])}
  IN  IF keep = {} THEN <<>> ELSE SubSeq(s, SetMin(keep), SetMax(keep))

\* s[:n]
Take(s, n) == SubSeq(s, 1, IF Len(s) < n THEN Len(s) ELSE n)

\* s.replace(a, b) for single characters
ReplaceChar(s, a, b) == [i \in 1..Len(s) |-> IF s[i] = a THEN b ELSE s[i]]

\* s[i:].startswith(p), i counted from 1
StartsAt(s, i, p) ==
  /\ i + Len(p) - 1 <= Len(s)
  /\ \A k \in 1..Len(p) : s[i + k - 1] = p[k]

\* p in s
Contains(s, p) == \E i \in 1..(Len(s) + 1) : StartsAt(s, i, p)

\* s.split(sep) for a single-character separator: the list of the pieces
Split(s, sep) ==
  LET cuts  == {i \in 1..Len(s) : s[i] = sep}
      bound == <<0>> \o
               [k \in 1..Cardinality(cuts) |->
                  CHOOSE i \in cuts : Cardinality({j \in cuts : j < i}) = k - 1]
               \o <<Len(s) + 1>>
  IN  [k \in 1..(Cardinality(cuts) + 1) |->
         SubSeq(s, bound[k] + 1, bound[k + 1] - 1)]

\* truth value of an Optional[str]: "not x" is ~Truthy(x)
Truthy(o) == o # None /\ Val(o) # <<>>

\* ------------------------------------------------------------------------
\* ValidationService (src/src/services/validation_service.py)

ErrQuestionTooShort == "Question must be at least 3 characters long"

ErrInvalidMode == "Query mode must be either 'book-wide' or 'selected-text'"

ErrSelectedTextRequired ==
  "Selected text must be provided when query mode is 'selected-text'"

MinQuestionLen == 3

\* the question rule, shared by validate_query_request and
\* validate_generation_ability
QuestionTooShort(question) ==
  question = <<>> \/ Len(Strip(question)) < MinQuestionLen

\* a validator that stops at the first violated rule
validate_query_request_first(q) ==
  IF QuestionTooShort(q.question) THEN <<ErrQuestionTooShort>>
  ELSE IF q.query_mode \notin {"book-wide", "selected-text"} THEN <<ErrInvalidMode>>
  ELSE IF /\ q.query_mode = "selected-text"
          /\ (~Truthy(q.selected_text) \/ Len(Strip(Val(q.selected_text))) = 0)
  THEN <<ErrSelectedTextRequired>>
  ELSE <<>>

validate_query_request(q) ==
  (IF QuestionTooShort(q.question) THEN <<ErrQuestionTooShort>> ELSE <<>>)
  \o
  (IF q.query_mode \notin {"book-wide", "selected-text"}
   THEN <<ErrInvalidMode>> ELSE <<>>)
  \o
  (IF /\ q.query_mode = "selected-text"
      /\ (~Truthy(q.selected_text) \/ Len(Strip(Val(q.selected_text))) = 0)
   THEN <<ErrSelectedTextRequired>> ELSE <<>>)

validate_retrieved_context(chunks) ==
  IF chunks = <<>> THEN FALSE ELSE Len(chunks) > 0

\* a gate that does not look at the document ids
can_generate_citations_unchecked(chunks) == TRUE

\* "not chunk.document_id" for any chunk makes citations impossible
can_generate_citations(chunks) ==
  \A i \in 1..Len(chunks) : chunks[i].document_id # <<>>

\* the endpoint calls it without an answer, so the grounding branch
\* ("if answer and not ...") is never taken; the result is None or the dict
check_refusal_conditions(chunks) ==
  IF ~validate_retrieved_context(chunks)
  THEN Some([reason_code |-> "NO_RELEVANT_CONTEXT",
             explanation |-> "No relevant context found in the textbook to answer the question."])
  ELSE IF chunks # <<>> /\ ~can_generate_citations(chunks)
  THEN Some([reason_code |-> "CITATION_FAILURE",
             explanation |-> "Citations cannot be generated for the provided context."])
  ELSE None

\* an ability check that asks for a longer question than the validator does
validate_generation_ability_longer(q) ==
  ~(q.question = <<>> \/ Len(Strip(q.question)) < 2 * MinQuestionLen)

\* GenerationService.validate_generation_ability
validate_generation_ability(q) == ~QuestionTooShort(q.question)

\* ------------------------------------------------------------------------
\* CitationService (src/src/services/citation_service.py)

SnippetLen == 200

DefaultRelevance == 75

MaxScore == 100

\* the digits matched by \d+ at position i of s (empty if none)
DigitRun(s, i) ==
  LET stop == {j \in i..(Len(s) + 1) : j = Len(s) + 1 \/ s[j] \notin Digits}
  IN  SubSeq(s, i, SetMin(stop) - 1)

\* position after \s* starting at i
SkipSpaces(s, i) ==
  SetMin({j \in i..(Len(s) + 1) : j = Len(s) + 1 \/ ~IsSpace(s[j])})

\* re.search(r'(?:kw1|kw2)\s*(\d+)', s): the set of start positions at which
\* the pattern matches; the match used is the leftmost one
KeywordNumberAt(s, i, kw) ==
  /\ StartsAt(s, i, kw)
  /\ DigitRun(s, SkipSpaces(s, i + Len(kw))) # <<>>

KeywordNumberMatches(s, kws) ==
  {i \in 1..Len(s) : \E k \in 1..Len(kws) : KeywordNumberAt(s, i, kws[k])}

\* group(1) of the leftmost match, first alternative first
KeywordNumberGroup(s, kws) ==
  LET i  == SetMin(KeywordNumberMatches(s, kws))
      k  == SetMin({j \in 1..Len(kws) : KeywordNumberAt(s, i, kws[j])})
  IN  DigitRun(s, SkipSpaces(s, i + Len(kws[k])))

\* the optional fraction (?:\.\d+)? that follows the digits of a section
FractionAt(s, i) ==
  IF i <= Len(s) /\ s[i] = "." /\ DigitRun(s, i + 1) # <<>>
  THEN <<".">> \o DigitRun(s, i + 1)
  ELSE <<>>

ChapterKeywords == << <<"c", "h", "a", "p", "t", "e", "r">>, <<"c", "h">> >>

SectionKeywords == << <<"s", "e", "c", "t", "i", "o", "n">>, <<"s", "e", "c">> >>

extract_chapter_from_path(document_id) ==
  LET low   == Lower(document_id)
      parts == Split(document_id, "_")
  IN  IF KeywordNumberMatches(low, ChapterKeywords) # {}
      THEN <<"C", "h", "a", "p", "t", "e", "r", " ">>
           \o KeywordNumberGroup(low, ChapterKeywords)
      ELSE IF Len(parts) > 1
      THEN Title(ReplaceChar(parts[1], "-", " "))
      ELSE <<"U", "n", "k", "n", "o", "w", "n", " ", "C", "h", "a", "p", "t", "e", "r">>

\* a fallback that takes the second fragment of the id, empty or not
extract_section_from_path_second_part(document_id) ==
  LET low   == Lower(document_id)
      parts == Split(document_id, "_")
  IN  IF KeywordNumberMatches(low, SectionKeywords) # {}
      THEN LET i   == SetMin(KeywordNumberMatches(low, SectionKeywords))
               k   == SetMin({j \in 1..2 : KeywordNumberAt(low, i, SectionKeywords[j])})
               at  == SkipSpaces(low, i + Len(SectionKeywords[k]))
               num == DigitRun(low, at)
           IN  <<"S", "e", "c", "t", "i", "o", "n", " ">>
               \o num \o FractionAt(low, at + Len(num))
      ELSE IF Len(parts) > 1
      THEN Title(ReplaceChar(parts[2], "-", " "))
      ELSE <<"G", "e", "n", "e", "r", "a", "l">>

extract_section_from_path(document_id) ==
  LET low   == Lower(document_id)
      parts == Split(document_id, "_")
      \* "'section' in part or 'topic' in part or len(part) > 0" is len(part) > 0
      rest  == {k \in 2..Len(parts) : Len(parts[k]) > 0}
  IN  IF KeywordNumberMatches(low, SectionKeywords) # {}
      THEN LET i   == SetMin(KeywordNumberMatches(low, SectionKeywords))
               k   == SetMin({j \in 1..2 : KeywordNumberAt(low, i, SectionKeywords[j])})
               at  == SkipSpaces(low, i + Len(SectionKeywords[k]))
               num == DigitRun(low, at)
           IN  <<"S", "e", "c", "t", "i", "o", "n", " ">>
               \o num \o FractionAt(low, at + Len(num))
      ELSE IF Len(parts) > 1 /\ rest # {}
      THEN Title(ReplaceChar(parts[SetMin(rest)], "-", " "))
      ELSE <<"G", "e", "n", "e", "r", "a", "l">>

calculate_relevance_score(chunk) == DefaultRelevance

\* a snippet cut to the limit without the "..." that marks the cut
text_snippet_of_cut(content) == Take(content, SnippetLen)

text_snippet_of(content) ==
  IF Len(content) > SnippetLen
  THEN Take(content, SnippetLen) \o <<".", ".", ".">>
  ELSE content

\* the citation of the i-th chunk (i counted from 1; the code's index is i-1)
citation_of(chunk, i, response_id) ==
  [id              |-> <<"cit_", response_id, i - 1>>,
   response_id     |-> response_id,
   document_id     |-> chunk.document_id,
   chapter         |-> extract_chapter_from_path(chunk.document_id),
   section         |-> extract_section_from_path(chunk.document_id),
   file_path       |-> chunk.document_id,
   relevance_score |-> calculate_relevance_score(chunk),
   text_snippet    |-> text_snippet_of(chunk.content)]

\* citations made from the chunks taken in reverse order
format_citations_reversed(chunks, response_id) ==
  [i \in 1..Len(chunks) |->
     citation_of(chunks[Len(chunks) + 1 - i], i, response_id)]

format_citations(chunks, response_id) ==
  [i \in 1..Len(chunks) |-> citation_of(chunks[i], i, response_id)]

\* "not field or not field.strip()"
BlankField(s) == s = <<>> \/ Strip(s) = <<>>

\* a validation that does not look at the relevance score
validate_citation_format_no_score(c) ==
  /\ ~BlankField(c.chapter)
  /\ ~BlankField(c.section)
  /\ ~BlankField(c.file_path)
  /\ ~BlankField(c.text_snippet)

validate_citation_format(c) ==
  /\ ~BlankField(c.chapter)
  /\ ~BlankField(c.section)
  /\ ~BlankField(c.file_path)
  /\ ~BlankField(c.text_snippet)
  /\ 0 <= c.relevance_score /\ c.relevance_score <= MaxScore

\* a citation builder that returns the list without validating it
generate_citation_for_response_unvalidated(chunks, response_id) ==
  [raised |-> FALSE, value |-> format_citations(chunks, response_id)]

\* a citation builder that returns the citations that validate and leaves
\* out the others
generate_citation_for_response_best_effort(chunks, response_id) ==
  [raised |-> FALSE,
   value |-> SelectSeq(format_citations(chunks, response_id), validate_citation_format)]

\* generate_citation_for_response: the list, or the ValueError raised for the
\* first citation that fails validation
generate_citation_for_response(chunks, response_id) ==
  LET cits == format_citations(chunks, response_id)
      bad  == {i \in 1..Len(cits) : ~validate_citation_format(cits[i])}
  IN  IF bad = {}
      THEN [raised |-> FALSE, value |-> cits]
      ELSE [raised |-> TRUE,
            exc |-> [type |-> "ValueError",
                     msg  |-> <<"Invalid citation format for document ",
                                cits[SetMin(bad)].document_id>>]]

\* ------------------------------------------------------------------------
\* GeminiLLMService / SelectedTextGeminiLLMService / GenerationService

PhraseCannotAnswer == <<"c", "a", "n", "n", "o", "t", " ", "a", "n", "s", "w", "e", "r">>

PhraseNoRelevant == <<"n", "o", " ", "r", "e", "l", "e", "v", "a", "n", "t">>

PhraseNotMentioned == <<"n", "o", "t", " ", "m", "e", "n", "t", "i", "o", "n", "e", "d">>

BookWidePhrases ==
  {PhraseCannotAnswer, PhraseNoRelevant, PhraseNotMentioned,
   <<"n", "o", "t", " ", "f", "o", "u", "n", "d", " ", "i", "n", " ",
     "c", "o", "n", "t", "e", "x", "t">>}

SelectedTextPhrases ==
  {PhraseCannotAnswer, PhraseNoRelevant, PhraseNotMentioned,
   <<"n", "o", "t", " ", "f", "o", "u", "n", "d", " ", "i", "n", " ",
     "s", "e", "l", "e", "c", "t", "e", "d", " ", "t", "e", "x", "t">>,
   <<"n", "o", "t", " ", "p", "r", "o", "v", "i", "d", "e", "d", " ", "i", "n", " ",
     "s", "e", "l", "e", "c", "t", "e", "d", " ", "t", "e", "x", "t">>,
   <<"o", "u", "t", "s", "i", "d", "e", " ", "t", "h", "e", " ",
     "p", "r", "o", "v", "i", "d", "e", "d", " ", "t", "e", "x", "t">>}

\* a confidence reported as a percentage
GeminiConfidence_percent == 85 * MaxScore

GeminiConfidence == 85

\* a reading of the model output that compares the phrases case-sensitively
generate_rag_response_case_sensitive(service, outcome) ==
  LET phrases == IF service = "selected_text_gemini_service"
                 THEN SelectedTextPhrases ELSE BookWidePhrases
      noinfo  == IF service = "selected_text_gemini_service"
                 THEN "No relevant information found in the selected text to answer the question."
                 ELSE "No relevant context found in the provided information."
  IN  IF outcome.raised
      THEN [answer |-> None, status |-> "error", confidence_score |-> None,
            reason_code |-> "ERROR",
            explanation |-> <<"Error generating response: ", outcome.exc.msg>>]
      ELSE IF outcome.text # <<>>
      THEN LET response_text == Strip(outcome.text)
           IN  IF \E ph \in phrases : Contains(response_text, ph)
               THEN [answer |-> None, status |-> "insufficient_context",
                     confidence_score |-> None,
                     reason_code |-> "NO_RELEVANT_CONTEXT",
                     explanation |-> noinfo]
               ELSE [answer |-> Some(response_text), status |-> "success",
                     confidence_score |-> Some(GeminiConfidence)]
      ELSE [answer |-> None, status |-> "insufficient_context",
            confidence_score |-> None,
            reason_code |-> "NO_RELEVANT_CONTEXT",
            explanation |-> "No response was generated from the model."]

\* generate_rag_response of either service, on the outcome of
\* self.model.generate_content: [raised, exc] or [raised, text]
generate_rag_response(service, outcome) ==
  LET phrases == IF service = "selected_text_gemini_service"
                 THEN SelectedTextPhrases ELSE BookWidePhrases
      noinfo  == IF service = "selected_text_gemini_service"
                 THEN "No relevant information found in the selected text to answer the question."
                 ELSE "No relevant context found in the provided information."
  IN  IF outcome.raised
      THEN [answer |-> None, status |-> "error", confidence_score |-> None,
            reason_code |-> "ERROR",
            explanation |-> <<"Error generating response: ", outcome.exc.msg>>]
      ELSE IF outcome.text # <<>>
      THEN LET response_text == Strip(outcome.text)
           IN  IF \E ph \in phrases : Contains(Lower(response_text), Lower(ph))
               THEN [answer |-> None, status |-> "insufficient_context",
                     confidence_score |-> None,
                     reason_code |-> "NO_RELEVANT_CONTEXT",
                     explanation |-> noinfo]
               ELSE [answer |-> Some(response_text), status |-> "success",
                     confidence_score |-> Some(GeminiConfidence)]
      ELSE [answer |-> None, status |-> "insufficient_context",
            confidence_score |-> None,
            reason_code |-> "NO_RELEVANT_CONTEXT",
            explanation |-> "No response was generated from the model."]

ContextLen == 500

\* a context made of the first chunk only
build_context_first(chunks) ==
  [i \in 1..(IF Len(chunks) > 1 THEN 1 ELSE Len(chunks)) |->
     [source |-> chunks[i].document_id,
      content |-> Take(chunks[i].content, ContextLen)]]

\* _build_context: one "Source: <document_id> | Content: <content[:500]>..."
\* entry per chunk, in order (the entries are joined by blank lines)
build_context(chunks) ==
  [i \in 1..Len(chunks) |->
     [source |-> chunks[i].document_id,
      content |-> Take(chunks[i].content, ContextLen)]]

create_refusal_response(reason_code, explanation) ==
  [answer |-> None, reason_code |-> reason_code, explanation |-> explanation,
   status |-> "insufficient_context", confidence_score |-> None]

\* a dispatch that sends a selected text of blanks to the book-wide policy
generation_dispatch_non_blank(q, chunks) ==
  IF /\ q.query_mode = "selected-text"
     /\ Truthy(q.selected_text)
     /\ Strip(Val(q.selected_text)) # <<>>
  THEN [service |-> "selected_text_gemini_service",
        question |-> q.question,
        context |-> Val(q.selected_text)]
  ELSE [service |-> "gemini_service",
        question |-> q.question,
        context |-> build_context(chunks)]

\* the service and the context generate_answer hands to it
generation_dispatch(q, chunks) ==
  IF q.query_mode = "selected-text" /\ Truthy(q.selected_text)
  THEN [service |-> "selected_text_gemini_service",
        question |-> q.question,
        context |-> Val(q.selected_text)]
  ELSE [service |-> "gemini_service",
        question |-> q.question,
        context |-> build_context(chunks)]

\* ------------------------------------------------------------------------
\* RetrievalService

TopK == 5

SelectedTextDocId ==
  <<"s", "e", "l", "e", "c", "t", "e", "d", "_", "t", "e", "x", "t", "_",
    "s", "e", "s", "s", "i", "o", "n">>

retrieve_from_selected_text(selected_text) ==
  << [id |-> "temp_selected_text",
      document_id |-> SelectedTextDocId,
      content |-> selected_text,
      chunk_index |-> 0] >>

\* payload.get("content") or payload.get("text") or
\* payload.get("chunk_text") or payload.get("page_content") or ""
ContentKeys == <<"content", "text", "chunk_text", "page_content">>

\* a loop that reads the text of a hit under the key "content" only
payload_content_content_only(payload) == Get(payload, "content", <<>>)

payload_content(payload) ==
  LET found == {k \in 1..Len(ContentKeys) :
                  Get(payload, ContentKeys[k], <<>>) # <<>>}
  IN  IF found = {} THEN <<>> ELSE payload[ContentKeys[SetMin(found)]]

chunk_of_hit(hit) ==
  [id |-> hit.id,
   document_id |-> Get(hit.payload, "document_id", <<>>),
   content |-> payload_content(hit.payload),
   chunk_index |-> Get(hit.payload, "chunk_index", 0)]

\* the loop of _retrieve_book_wide over search_results.points: hits without
\* content are skipped, the others are appended in order
RECURSIVE chunks_of_hits(_)
chunks_of_hits(hits) ==
  IF hits = <<>> THEN <<>>
  ELSE IF payload_content(Head(hits).payload) = <<>>
  THEN chunks_of_hits(Tail(hits))
  ELSE <<chunk_of_hit(Head(hits))>> \o chunks_of_hits(Tail(hits))

\* a retriever that searches the index whatever the mode
uses_selected_text_never(query_mode, selected_text) == FALSE

\* which branch retrieve_for_query takes
uses_selected_text(query_mode, selected_text) ==
  query_mode = "selected-text" /\ Truthy(selected_text)

\* ------------------------------------------------------------------------
\* response_formatter.py

format_citations_list(cits) ==
  [i \in 1..Len(cits) |->
     [id |-> cits[i].id, response_id |-> cits[i].response_id,
      document_id |-> cits[i].document_id, chapter |-> cits[i].chapter,
      section |-> cits[i].section, file_path |-> cits[i].file_path,
      relevance_score |-> cits[i].relevance_score,
      text_snippet |-> cits[i].text_snippet]]

format_response_with_citations(response) ==
  [id |-> response.id,
   query_id |-> response.query_id,
   answer |-> response.answer,
   citations |-> format_citations_list(response.citations),
   retrieved_chunks |-> response.retrieved_chunks,
   confidence_score |-> response.confidence_score,
   generation_time_ms |-> response.generation_time_ms,
   status |-> response.status]

RefusalStatus == "insufficient_context"

\* a refusal that takes the id prefix of the answers
format_refusal_response_resp_id(query_id, reason_code, explanation) ==
  [id |-> <<"resp_", query_id>>,
   query_id |-> query_id,
   answer |-> None,
   reason_code |-> reason_code,
   explanation |-> explanation,
   citations |-> <<>>,
   retrieved_chunks |-> <<>>,
   confidence_score |-> None,
   generation_time_ms |-> 0,
   status |-> RefusalStatus]

format_refusal_response(query_id, reason_code, explanation) ==
  [id |-> <<"ref_", query_id>>,
   query_id |-> query_id,
   answer |-> None,
   reason_code |-> reason_code,
   explanation |-> explanation,
   citations |-> <<>>,
   retrieved_chunks |-> <<>>,
   confidence_score |-> None,
   generation_time_ms |-> 0,
   status |-> RefusalStatus]

\* ------------------------------------------------------------------------
\* Inputs: the requests a client may send and the outcomes of the external
\* providers (embedding API, vector index, text-generation API, clock)

MaxHits == 2

\* the coroutines of query_endpoint that may exist, and the one the
\* sequential specification runs
Slots == {1, 2}

Sequential == {1}

QuestionHi == <<"H", "i">>

QuestionPadded == <<" ", "H", "i", " ">>

QuestionOk == <<"W", "h", "a", "t", "?">>

Questions == {<<>>, QuestionHi, QuestionPadded, QuestionOk}

Modes == {"book-wide", "selected-text", "invalid_mode"}

SelectedOk == <<"t", "x", "t">>

SelectedTexts == {None, Some(<<>>), Some(<<" ">>), Some(SelectedOk)}

Ids == {"q1"}

Requests ==
  [id : Ids, question : Questions, query_mode : Modes,
   selected_text : SelectedTexts]

NoRequest ==
  [id |-> "", question |-> <<>>, query_mode |-> "", selected_text |-> None]

\* messages of the exceptions the providers may raise
ErrMsgs == {"connection refused", "api key sk-123 rejected"}

ProviderErrors == {[type |-> "Exception", msg |-> m] : m \in ErrMsgs}

Embeddings == { <<1, 2>> }

DocPlain == <<"d", "o", "c", "_", "1">>

DocChapter == <<"c", "h", "3">>

HitGood ==
  [id |-> "p1",
   payload |-> [content |-> <<"A", "I">>, document_id |-> DocPlain, chunk_index |-> 0]]

HitTextKey ==
  [id |-> "p2",
   payload |-> [text |-> <<"b", "o", "t">>, document_id |-> DocChapter, chunk_index |-> 1]]

HitNoContent ==
  [id |-> "p3", payload |-> [document_id |-> DocPlain, content |-> <<>>]]

HitNoDocId ==
  [id |-> "p4", payload |-> [content |-> <<"x">>]]

HitBlankContent ==
  [id |-> "p5", payload |-> [content |-> <<" ">>, document_id |-> DocPlain]]

\* a passage longer than the context and snippet limits
HitLong ==
  [id |-> "p6",
   payload |-> [content |-> [i \in 1..(ContextLen + 1) |-> "a"],
                document_id |-> DocChapter, chunk_index |-> 2]]

HitUniverse ==
  {HitGood, HitTextKey, HitNoContent, HitNoDocId, HitBlankContent, HitLong}

\* the answers of the vector index to one search with limit = top_k
SearchResults ==
  UNION {[1..n -> HitUniverse] : n \in 0..(IF MaxHits < TopK THEN MaxHits ELSE TopK)}

\* response.text of the text-generation model
RawOutputs ==
  {<<>>, <<" ">>, <<" ", "o", "k", " ">>,
   <<"I", " ", "C", "a", "n", "n", "o", "t", " ", "a", "n", "s", "w", "e", "r">>}

GenerationOutcomes ==
  {[raised |-> TRUE, exc |-> e] : e \in ProviderErrors}
  \cup {[raised |-> FALSE, text |-> t] : t \in RawOutputs}

\* elapsed wall-clock time of a request, in ms
ElapsedMs == {120, 6000}

\* the settings of a process that serves the API: GenerationService() and
\* EmbeddingService(), built when routes/query.py is imported, raise without
\* a Gemini key and a Cohere key; the OpenAI keys are optional and unset
AppSettings ==
  [gemini_api_key |-> Some(<<"g", "k">>), openai_api_key |-> None,
   cohere_api_key |-> Some(<<"c", "k">>), openai_embedding_api_key |-> None]

\* the texts health_check writes for a connection that answered or failed
TextConnected == <<"c", "o", "n", "n", "e", "c", "t", "e", "d">>

TextErrorPrefix == <<"e", "r", "r", "o", "r", ":", " ">>

Checking ==
  [qdrant |-> <<"c", "h", "e", "c", "k", "i", "n", "g", ".", ".", ".">>, postgres |-> <<"c", "h", "e", "c", "k", "i", "n", "g", ".", ".", ".">>,
   llm_service |-> <<"c", "h", "e", "c", "k", "i", "n", "g", ".", ".", ".">>, embedding_service |-> <<"c", "h", "e", "c", "k", "i", "n", "g", ".", ".", ".">>]

\* str(e) of the exceptions the vector store and the database may raise
HealthErrors == {<<"r", "e", "f", "u", "s", "e", "d">>, <<"t", "i", "m", "e", "o", "u", "t">>}

\* ------------------------------------------------------------------------
\* State: one coroutine of query_endpoint per slot

VARIABLES
  pc,                 \* the stage the coroutine is at
  req,                \* query_request
  query_embedding,    \* local of query_endpoint
  retrieved_chunks,   \* local of query_endpoint
  generation_result,  \* local of query_endpoint
  citations,          \* local of query_endpoint
  result,             \* what the endpoint returned (or raised) to FastAPI
  calls,              \* history: the services and providers called so far
  prompt,             \* history: what was sent to the text-generation service
  caught,             \* history: the exception the endpoint's handler caught
  db,                 \* config/database.py: the module-level DatabaseConnection
  settings,           \* config/settings.py: the module-level Settings
  dependencies,       \* local of health_check
  pool                \* local of health_check

vars == <<pc, req, query_embedding, retrieved_chunks, generation_result,
          citations, result, calls, prompt, caught,
          db, settings, dependencies, pool>>

\* what the coroutines of query_endpoint never touch
health_vars == <<db, settings, dependencies, pool>>

NoResult == [kind |-> "none"]

NoGeneration == [status |-> "unset"]

NoPrompt == [service |-> "none"]

Init ==
  /\ pc = [r \in Slots |-> "idle"]
  /\ req = [r \in Slots |-> NoRequest]
  /\ query_embedding = [r \in Slots |-> <<>>]
  /\ retrieved_chunks = [r \in Slots |-> <<>>]
  /\ generation_result = [r \in Slots |-> NoGeneration]
  /\ citations = [r \in Slots |-> <<>>]
  /\ result = [r \in Slots |-> NoResult]
  /\ calls = [r \in Slots |-> <<>>]
  /\ prompt = [r \in Slots |-> NoPrompt]
  /\ caught = [r \in Slots |-> None]
  /\ db = [pool |-> None, connects |-> 0]
  /\ settings = AppSettings
  /\ dependencies = [r \in Slots |-> Checking]
  /\ pool = [r \in Slots |-> None]

\* "except Exception" of query_endpoint: the classes it catches
ExceptionClasses == {"Exception", "ValueError", "HTTPException", "TypeError", "KeyError"}

\* a handler that lets HTTPException through
CaughtByEndpoint_not_http(e) == e.type \in ExceptionClasses \ {"HTTPException"}

CaughtByEndpoint(e) == e.type \in ExceptionClasses

Finish(r, res) ==
  /\ result' = [result EXCEPT ![r] = res]
  /\ pc' = [pc EXCEPT ![r] = "done"]

\* the endpoint returns a dict
Return(r, body) ==
  /\ Finish(r, [kind |-> "return", body |-> body])
  /\ UNCHANGED caught

\* an exception raised inside the try block of query_endpoint: the handler
\* returns a refusal dict with reason_code "ERROR"; an exception the handler
\* does not catch leaves the endpoint
Raise(r, e) ==
  IF CaughtByEndpoint(e)
  THEN /\ Finish(r, [kind |-> "return",
                     body |-> format_refusal_response(req[r].id, "ERROR",
                       <<"An error occurred while processing your request: ", e.msg>>)])
       /\ caught' = [caught EXCEPT ![r] = Some(e)]
  ELSE /\ Finish(r, [kind |-> "raise", exc |-> e])
       /\ UNCHANGED caught

Goto(r, stage) ==
  /\ pc' = [pc EXCEPT ![r] = stage]
  /\ UNCHANGED <<result, caught>>

Call(r, names) == calls' = [calls EXCEPT ![r] = @ \o names]

\* a request arrives: FastAPI starts query_endpoint(query_request)
Submit(r) ==
  /\ pc[r] = "idle"
  /\ UNCHANGED health_vars
  /\ \E q \in Requests : req' = [req EXCEPT ![r] = q]
  /\ pc' = [pc EXCEPT ![r] = "validating"]
  /\ UNCHANGED <<query_embedding, retrieved_chunks, generation_result,
                 citations, result, calls, prompt, caught>>

HTTP_400_BAD_REQUEST == 400

\* a step 1 that computes the errors but goes on
Validate_no_stop(r) ==
  /\ pc[r] = "validating"
  /\ UNCHANGED health_vars
  /\ Goto(r, "checking_ability")
  /\ UNCHANGED <<req, query_embedding, retrieved_chunks, generation_result,
                 citations, calls, prompt>>

\* step 1: validate the query request
Validate(r) ==
  /\ pc[r] = "validating"
  /\ UNCHANGED health_vars
  /\ LET validation_errors == validate_query_request(req[r])
     IN  IF validation_errors # <<>>
         THEN Raise(r, [type |-> "HTTPException",
                        status_code |-> HTTP_400_BAD_REQUEST,
                        detail |-> [error |-> "Invalid query parameters",
                                    details |-> validation_errors],
                        msg |-> <<HTTP_400_BAD_REQUEST, ": ",
                                  [error |-> "Invalid query parameters",
                                   details |-> validation_errors]>>])
         ELSE Goto(r, "checking_ability")
  /\ UNCHANGED <<req, query_embedding, retrieved_chunks, generation_result,
                 citations, calls, prompt>>

\* step 2: check if we can generate an answer
CheckAbility(r) ==
  /\ pc[r] = "checking_ability"
  /\ UNCHANGED health_vars
  /\ IF ~validate_generation_ability(req[r])
     THEN Return(r, format_refusal_response(req[r].id, "NO_RELEVANT_CONTEXT",
            "The query does not contain enough information to generate an answer."))
     ELSE Goto(r, "embedding")
  /\ UNCHANGED <<req, query_embedding, retrieved_chunks, generation_result,
                 citations, calls, prompt>>

\* a step 3 that calls the embedder a second time when the provider failed
Embed_retry_once(r) ==
  /\ pc[r] = "embedding"
  /\ UNCHANGED health_vars
  /\ IF req[r].question = <<>>
     THEN /\ query_embedding' = [query_embedding EXCEPT ![r] = <<>>]
          /\ Call(r, <<"embedder">>)
          /\ Goto(r, "retrieving")
     ELSE /\ Call(r, <<"embedder", "embedding_api">>)
          /\ \/ \E v \in Embeddings :
                  /\ query_embedding' = [query_embedding EXCEPT ![r] = v]
                  /\ Goto(r, "retrieving")
             \/ \E e \in ProviderErrors :
                  /\ IF calls[r] = <<>>
                     THEN Goto(r, "embedding")
                     ELSE Raise(r, e)
                  /\ UNCHANGED query_embedding
  /\ UNCHANGED <<req, retrieved_chunks, generation_result, citations, prompt>>

\* step 3: create the embedding of the question
\* (create_single_embedding returns [] for an empty text without calling the
\* provider; otherwise the provider returns a vector or raises)
Embed(r) ==
  /\ pc[r] = "embedding"
  /\ UNCHANGED health_vars
  /\ IF req[r].question = <<>>
     THEN /\ query_embedding' = [query_embedding EXCEPT ![r] = <<>>]
          /\ Call(r, <<"embedder">>)
          /\ Goto(r, "retrieving")
     ELSE /\ Call(r, <<"embedder", "embedding_api">>)
          /\ \/ \E v \in Embeddings :
                  /\ query_embedding' = [query_embedding EXCEPT ![r] = v]
                  /\ Goto(r, "retrieving")
             \/ \E e \in ProviderErrors :
                  /\ Raise(r, e)
                  /\ UNCHANGED query_embedding
  /\ UNCHANGED <<req, retrieved_chunks, generation_result, citations, prompt>>

\* step 4: retrieve the context passages
Retrieve(r) ==
  /\ pc[r] = "retrieving"
  /\ UNCHANGED health_vars
  /\ IF uses_selected_text(req[r].query_mode, req[r].selected_text)
     THEN /\ Call(r, <<"retriever">>)
          /\ retrieved_chunks' = [retrieved_chunks EXCEPT ![r] =
                                    retrieve_from_selected_text(Val(req[r].selected_text))]
          /\ Goto(r, "gating")
     ELSE /\ Call(r, <<"retriever", "vector_search">>)
          /\ \/ \E hits \in SearchResults :
                  /\ retrieved_chunks' = [retrieved_chunks EXCEPT ![r] = chunks_of_hits(hits)]
                  /\ Goto(r, "gating")
             \/ \E e \in ProviderErrors :
                  /\ Raise(r, e)
                  /\ UNCHANGED retrieved_chunks
  /\ UNCHANGED <<req, query_embedding, generation_result, citations, prompt>>

\* a step 5 whose gate empties the passage list it refuses
Gate_clears_passages(r) ==
  /\ pc[r] = "gating"
  /\ UNCHANGED health_vars
  /\ LET refusal_response == check_refusal_conditions(retrieved_chunks[r])
     IN  IF refusal_response # None
         THEN /\ Return(r, format_refusal_response(req[r].id,
                              Val(refusal_response).reason_code,
                              Val(refusal_response).explanation))
              /\ retrieved_chunks' = [retrieved_chunks EXCEPT ![r] = <<>>]
         ELSE /\ Goto(r, "generating")
              /\ UNCHANGED retrieved_chunks
  /\ UNCHANGED <<req, query_embedding, generation_result, citations, calls, prompt>>

\* a step 5 that builds the refusal but forgets to return it
Gate_no_return(r) ==
  /\ pc[r] = "gating"
  /\ UNCHANGED health_vars
  /\ LET refusal_response == check_refusal_conditions(retrieved_chunks[r])
     IN  IF refusal_response # None
         THEN /\ result' = [result EXCEPT ![r] =
                   [kind |-> "return",
                    body |-> format_refusal_response(req[r].id,
                               Val(refusal_response).reason_code,
                               Val(refusal_response).explanation)]]
              /\ pc' = [pc EXCEPT ![r] = "generating"]
              /\ UNCHANGED caught
         ELSE Goto(r, "generating")
  /\ UNCHANGED <<req, query_embedding, retrieved_chunks, generation_result,
                 citations, calls, prompt>>

\* step 5: the post-retrieval checkpoint
Gate(r) ==
  /\ pc[r] = "gating"
  /\ UNCHANGED health_vars
  /\ LET refusal_response == check_refusal_conditions(retrieved_chunks[r])
     IN  IF refusal_response # None
         THEN Return(r, format_refusal_response(req[r].id,
                          Val(refusal_response).reason_code,
                          Val(refusal_response).explanation))
         ELSE Goto(r, "generating")
  /\ UNCHANGED <<req, query_embedding, retrieved_chunks, generation_result,
                 citations, calls, prompt>>

\* a generate_answer without its check of the passage list: the model is
\* asked whatever was retrieved
Generate_always_asks(r) ==
  /\ pc[r] = "generating"
  /\ UNCHANGED health_vars
  /\ Call(r, <<"generator", "llm">>)
  /\ prompt' = [prompt EXCEPT ![r] =
                  generation_dispatch(req[r], retrieved_chunks[r])]
  /\ \E outcome \in GenerationOutcomes :
       generation_result' = [generation_result EXCEPT ![r] =
         generate_rag_response(prompt'[r].service, outcome)]
  /\ IF generation_result'[r].status = "insufficient_context"
     THEN Return(r, format_refusal_response(req[r].id,
            Get(generation_result'[r], "reason_code", "NO_RELEVANT_CONTEXT"),
            Get(generation_result'[r], "explanation",
                "Could not generate an answer based on the provided context.")))
     ELSE Goto(r, "citing")
  /\ UNCHANGED <<req, query_embedding, retrieved_chunks, citations>>

\* step 6 without step 7: the generator's refusal goes on to the citations
Generate_no_step7(r) ==
  /\ pc[r] = "generating"
  /\ UNCHANGED health_vars
  /\ IF retrieved_chunks[r] = <<>>
     THEN /\ Call(r, <<"generator">>)
          /\ generation_result' = [generation_result EXCEPT ![r] =
               create_refusal_response("NO_RELEVANT_CONTEXT",
                 "No relevant context found to answer the question from the textbook.")]
          /\ UNCHANGED prompt
     ELSE /\ Call(r, <<"generator", "llm">>)
          /\ prompt' = [prompt EXCEPT ![r] =
                          generation_dispatch(req[r], retrieved_chunks[r])]
          /\ \E outcome \in GenerationOutcomes :
               generation_result' = [generation_result EXCEPT ![r] =
                 generate_rag_response(prompt'[r].service, outcome)]
  /\ Goto(r, "citing")
  /\ UNCHANGED <<req, query_embedding, retrieved_chunks, citations>>

\* steps 6 and 7: generate the answer, and return the generator's refusal
Generate(r) ==
  /\ pc[r] = "generating"
  /\ UNCHANGED health_vars
  /\ IF retrieved_chunks[r] = <<>>
     THEN /\ Call(r, <<"generator">>)
          /\ generation_result' = [generation_result EXCEPT ![r] =
               create_refusal_response("NO_RELEVANT_CONTEXT",
                 "No relevant context found to answer the question from the textbook.")]
          /\ UNCHANGED prompt
     ELSE /\ Call(r, <<"generator", "llm">>)
          /\ prompt' = [prompt EXCEPT ![r] =
                          generation_dispatch(req[r], retrieved_chunks[r])]
          /\ \E outcome \in GenerationOutcomes :
               generation_result' = [generation_result EXCEPT ![r] =
                 generate_rag_response(prompt'[r].service, outcome)]
  /\ IF generation_result'[r].status = "insufficient_context"
     THEN Return(r, format_refusal_response(req[r].id,
            Get(generation_result'[r], "reason_code", "NO_RELEVANT_CONTEXT"),
            Get(generation_result'[r], "explanation",
                "Could not generate an answer based on the provided context.")))
     ELSE Goto(r, "citing")
  /\ UNCHANGED <<req, query_embedding, retrieved_chunks, citations>>

\* a step 8 without its own "except ValueError": the failure reaches the
\* handler of the endpoint
Cite_unguarded(r) ==
  /\ pc[r] = "citing"
  /\ UNCHANGED health_vars
  /\ Call(r, <<"citation_builder">>)
  /\ LET built == generate_citation_for_response(retrieved_chunks[r], req[r].id)
     IN  IF built.raised
         THEN /\ Raise(r, built.exc)
              /\ UNCHANGED citations
         ELSE /\ citations' = [citations EXCEPT ![r] = built.value]
              /\ Goto(r, "formatting")
  /\ UNCHANGED <<req, query_embedding, retrieved_chunks, generation_result, prompt>>

\* a step 8 on a citation service that keeps the passages of a retrieval in
\* an attribute of the shared instance: any request's passages may be cited
Cite_shared_passages(r) ==
  /\ pc[r] = "citing"
  /\ UNCHANGED health_vars
  /\ Call(r, <<"citation_builder">>)
  /\ \E s \in Slots :
       /\ retrieved_chunks[s] # <<>>
       /\ LET built == generate_citation_for_response(retrieved_chunks[s], req[r].id)
          IN  IF built.raised
              THEN /\ IF built.exc.type = "ValueError"
                      THEN Return(r, format_refusal_response(req[r].id, "CITATION_FAILURE",
                             <<"Citations could not be generated: ", built.exc.msg>>))
                      ELSE Raise(r, built.exc)
                   /\ UNCHANGED citations
              ELSE /\ citations' = [citations EXCEPT ![r] = built.value]
                   /\ Goto(r, "formatting")
  /\ UNCHANGED <<req, query_embedding, retrieved_chunks, generation_result, prompt>>

\* step 8: generate the citations; a ValueError is caught and refused
Cite(r) ==
  /\ pc[r] = "citing"
  /\ UNCHANGED health_vars
  /\ Call(r, <<"citation_builder">>)
  /\ LET built == generate_citation_for_response(retrieved_chunks[r], req[r].id)
     IN  IF built.raised
         THEN /\ IF built.exc.type = "ValueError"
                 THEN Return(r, format_refusal_response(req[r].id, "CITATION_FAILURE",
                        <<"Citations could not be generated: ", built.exc.msg>>))
                 ELSE Raise(r, built.exc)
              /\ UNCHANGED citations
         ELSE /\ citations' = [citations EXCEPT ![r] = built.value]
              /\ Goto(r, "formatting")
  /\ UNCHANGED <<req, query_embedding, retrieved_chunks, generation_result, prompt>>

\* a step 9 on a module-level memory of the documents already cited: the
\* citations of documents an earlier response cited are left out
Format_dedup(r) ==
  /\ pc[r] = "formatting"
  /\ UNCHANGED health_vars
  /\ \E response_time \in ElapsedMs :
       Return(r, format_response_with_citations(
         [id |-> <<"resp_", req[r].id>>,
          query_id |-> req[r].id,
          answer |-> generation_result[r].answer,
          citations |-> SelectSeq(citations[r],
                          LAMBDA c : \A o \in Slots \ {r} :
                            result[o].kind = "return" =>
                              \A i \in 1..Len(result[o].body.citations) :
                                result[o].body.citations[i].document_id # c.document_id),
          retrieved_chunks |-> [i \in 1..Len(retrieved_chunks[r]) |->
                                  retrieved_chunks[r][i].id],
          confidence_score |-> Get(generation_result[r], "confidence_score", Some(0)),
          generation_time_ms |-> response_time,
          status |-> generation_result[r].status]))
  /\ UNCHANGED <<req, query_embedding, retrieved_chunks, generation_result,
                 citations, calls, prompt>>

\* step 9: build the QueryResponse and format it
Format(r) ==
  /\ pc[r] = "formatting"
  /\ UNCHANGED health_vars
  /\ \E response_time \in ElapsedMs :
       Return(r, format_response_with_citations(
         [id |-> <<"resp_", req[r].id>>,
          query_id |-> req[r].id,
          answer |-> generation_result[r].answer,
          citations |-> citations[r],
          retrieved_chunks |-> [i \in 1..Len(retrieved_chunks[r]) |->
                                  retrieved_chunks[r][i].id],
          confidence_score |-> Get(generation_result[r], "confidence_score", Some(0)),
          generation_time_ms |-> response_time,
          status |-> generation_result[r].status]))
  /\ UNCHANGED <<req, query_embedding, retrieved_chunks, generation_result,
                 citations, calls, prompt>>

Step(r) ==
  \/ Submit(r)
  \/ Validate(r)
  \/ CheckAbility(r)
  \/ Embed(r)
  \/ Retrieve(r)
  \/ Gate(r)
  \/ Generate(r)
  \/ Cite(r)
  \/ Format(r)

Next == \E r \in Sequential : Step(r)

Spec == Init /\ [][Next]_vars

\* the client sends the request of an answered call once more; the second
\* call runs in a coroutine of its own, on the same module-level services
Resubmit(r) ==
  /\ pc[r] = "idle"
  /\ UNCHANGED health_vars
  /\ \E first \in Sequential :
       /\ pc[first] = "done"
       /\ req' = [req EXCEPT ![r] = req[first]]
  /\ pc' = [pc EXCEPT ![r] = "validating"]
  /\ UNCHANGED <<query_embedding, retrieved_chunks, generation_result,
                 citations, result, calls, prompt, caught>>

\* step 4 of the second call, on the unchanged corpus: a search that succeeds
\* gives the passages the search of the first call gave
RetrieveAgain(r) ==
  /\ pc[r] = "retrieving"
  /\ UNCHANGED health_vars
  /\ IF uses_selected_text(req[r].query_mode, req[r].selected_text)
     THEN /\ Call(r, <<"retriever">>)
          /\ retrieved_chunks' = [retrieved_chunks EXCEPT ![r] =
                                    retrieve_from_selected_text(Val(req[r].selected_text))]
          /\ Goto(r, "gating")
     ELSE /\ Call(r, <<"retriever", "vector_search">>)
          /\ \/ \E hits \in SearchResults :
                  /\ \A first \in Sequential :
                       (pc[first] = "done" /\ caught[first] = None) =>
                         chunks_of_hits(hits) = retrieved_chunks[first]
                  /\ retrieved_chunks' = [retrieved_chunks EXCEPT ![r] = chunks_of_hits(hits)]
                  /\ Goto(r, "gating")
             \/ \E e \in ProviderErrors :
                  /\ Raise(r, e)
                  /\ UNCHANGED retrieved_chunks
  /\ UNCHANGED <<req, query_embedding, generation_result, citations, prompt>>

\* the second call
Again(r) ==
  \/ Resubmit(r)
  \/ Validate(r)
  \/ CheckAbility(r)
  \/ Embed(r)
  \/ RetrieveAgain(r)
  \/ Gate(r)
  \/ Generate(r)
  \/ Cite(r)
  \/ Format(r)

TwiceNext ==
  \/ \E r \in Sequential : Step(r)
  \/ \E r \in Slots \ Sequential : Again(r)

TwiceSpec == Init /\ [][TwiceNext]_vars

\* retrieve_for_query called on its own, as the unit tests call it: any
\* embedding, any mode, any selected_text
CallRetrieve(r) ==
  /\ pc[r] = "idle"
  /\ UNCHANGED health_vars
  /\ \E q \in Requests : req' = [req EXCEPT ![r] = q]
  /\ \E v \in Embeddings \cup {<<>>} :
       query_embedding' = [query_embedding EXCEPT ![r] = v]
  /\ pc' = [pc EXCEPT ![r] = "retrieving"]
  /\ UNCHANGED <<retrieved_chunks, generation_result, citations, result,
                 calls, prompt, caught>>

RetrieveNext == \E r \in Sequential : CallRetrieve(r) \/ Retrieve(r)

RetrieveSpec == Init /\ [][RetrieveNext]_vars

\* two requests in flight at once: each coroutine of query_endpoint runs on
\* the module-level services and is suspended at its awaited calls, where the
\* event loop may run the other one. The two clients send requests with
\* different ids, and the index answers with at most one hit
RequestId(r) == IF r = 1 THEN "q1" ELSE "q2"

ConcurrentRequests(r) ==
  {[q EXCEPT !.id = RequestId(r)] :
     q \in {q \in Requests :
              /\ q.question \in {QuestionHi, QuestionOk}
              /\ q.query_mode \in {"book-wide", "selected-text"}
              /\ q.selected_text \in {None, Some(SelectedOk)}}}

SubmitConcurrent(r) ==
  /\ pc[r] = "idle"
  /\ UNCHANGED health_vars
  /\ \E q \in ConcurrentRequests(r) : req' = [req EXCEPT ![r] = q]
  /\ pc' = [pc EXCEPT ![r] = "validating"]
  /\ UNCHANGED <<query_embedding, retrieved_chunks, generation_result,
                 citations, result, calls, prompt, caught>>

RetrieveConcurrent(r) ==
  /\ Retrieve(r)
  /\ Len(retrieved_chunks'[r]) <= 1

ConcurrentStep(r) ==
  \/ SubmitConcurrent(r)
  \/ Validate(r)
  \/ CheckAbility(r)
  \/ Embed(r)
  \/ RetrieveConcurrent(r)
  \/ Gate(r)
  \/ Generate(r)
  \/ Cite(r)
  \/ Format(r)

ConcurrentNext == \E r \in Slots : ConcurrentStep(r)

ConcurrentSpec == Init /\ [][ConcurrentNext]_vars

\* _retrieve_book_wide called on its own, as the unit tests call it: the
\* awaited search returns search_results, then the loop maps its points
QueryPoints(r) ==
  /\ pc[r] = "idle"
  /\ UNCHANGED health_vars
  /\ \E v \in Embeddings \cup {<<>>} :
       query_embedding' = [query_embedding EXCEPT ![r] = v]
  /\ \E hits \in SearchResults :
       result' = [result EXCEPT ![r] = [kind |-> "search_results", points |-> hits]]
  /\ Call(r, <<"vector_search">>)
  /\ pc' = [pc EXCEPT ![r] = "mapping_hits"]
  /\ UNCHANGED <<req, retrieved_chunks, generation_result, citations, prompt, caught>>

MapHits(r) ==
  /\ pc[r] = "mapping_hits"
  /\ UNCHANGED health_vars
  /\ retrieved_chunks' = [retrieved_chunks EXCEPT ![r] = chunks_of_hits(result[r].points)]
  /\ pc' = [pc EXCEPT ![r] = "done"]
  /\ UNCHANGED <<req, query_embedding, generation_result, citations, result,
                 calls, prompt, caught>>

BookWideNext == \E r \in Sequential : QueryPoints(r) \/ MapHits(r)

BookWideSpec == Init /\ [][BookWideNext]_vars

\* validate_citation_format called on its own, as the unit tests call it, on
\* citations with empty, blank and filled fields and scores in and out of range
FieldTexts == {<<>>, <<" ">>, <<" ", "\t">>, <<" ", "a", " ">>}

Scores == {0 - 1, 0, DefaultRelevance, MaxScore, MaxScore + 1}

CitationInputs ==
  [id : {"cit_1"}, response_id : {"resp_1"}, document_id : {DocPlain},
   chapter : FieldTexts, section : FieldTexts, file_path : FieldTexts,
   relevance_score : Scores, text_snippet : FieldTexts]

CallValidateCitation(r) ==
  /\ pc[r] = "idle"
  /\ UNCHANGED health_vars
  /\ \E c \in CitationInputs : citations' = [citations EXCEPT ![r] = <<c>>]
  /\ pc' = [pc EXCEPT ![r] = "checking_citation"]
  /\ UNCHANGED <<req, query_embedding, retrieved_chunks, generation_result,
                 result, calls, prompt, caught>>

ValidateCitation(r) ==
  /\ pc[r] = "checking_citation"
  /\ UNCHANGED health_vars
  /\ Call(r, <<"validate_citation_format">>)
  /\ Return(r, validate_citation_format(citations[r][1]))
  /\ UNCHANGED <<req, query_embedding, retrieved_chunks, generation_result,
                 citations, prompt>>

CitationNext == \E r \in Sequential : CallValidateCitation(r) \/ ValidateCitation(r)

CitationSpec == Init /\ [][CitationNext]_vars

\* generate_rag_response of either service called on its own: the model
\* answers with a text made of a lead-in, a core and an ending, or its API raises
Upper(s) == [i \in 1..Len(s) |-> UpperChar(s[i])]

OutputCores ==
  BookWidePhrases \cup SelectedTextPhrases
  \cup {Upper(ph) : ph \in BookWidePhrases \cup SelectedTextPhrases}
  \cup {Title(ph) : ph \in BookWidePhrases \cup SelectedTextPhrases}
  \cup {<<>>, <<"o", "k">>, <<"n", "o", "t", " ", "f", "o", "u", "n", "d">>}

OutputEnds == {<<>>, <<" ">>, <<".">>}

ModelOutputs ==
  {lead \o core \o tail :
     lead \in OutputEnds, core \in OutputCores, tail \in OutputEnds}

ModelOutcomes ==
  {[raised |-> TRUE, exc |-> e] : e \in ProviderErrors}
  \cup {[raised |-> FALSE, text |-> t] : t \in ModelOutputs}

Services == {"gemini_service", "selected_text_gemini_service"}

\* self.model.generate_content(prompt) returns or raises
ModelAnswers(r) ==
  /\ pc[r] = "idle"
  /\ UNCHANGED health_vars
  /\ \E service \in Services, outcome \in ModelOutcomes :
       prompt' = [prompt EXCEPT ![r] =
                    [service |-> service, question |-> QuestionOk,
                     context |-> <<>>, outcome |-> outcome]]
  /\ Call(r, <<"llm">>)
  /\ pc' = [pc EXCEPT ![r] = "reading_output"]
  /\ UNCHANGED <<req, query_embedding, retrieved_chunks, generation_result,
                 citations, result, caught>>

\* a sync_generate without its "except Exception": a failure of the model's
\* API leaves generate_rag_response and generate_answer
ReadOutput_unguarded(r) ==
  /\ pc[r] = "reading_output"
  /\ UNCHANGED health_vars
  /\ IF prompt[r].outcome.raised
     THEN /\ Raise(r, prompt[r].outcome.exc)
          /\ UNCHANGED generation_result
     ELSE /\ generation_result' = [generation_result EXCEPT ![r] =
               generate_rag_response(prompt[r].service, prompt[r].outcome)]
          /\ Return(r, generation_result'[r])
  /\ UNCHANGED <<req, query_embedding, retrieved_chunks, citations, calls, prompt>>

\* the rest of sync_generate: the result dict made from the outcome
ReadOutput(r) ==
  /\ pc[r] = "reading_output"
  /\ UNCHANGED health_vars
  /\ generation_result' = [generation_result EXCEPT ![r] =
       generate_rag_response(prompt[r].service, prompt[r].outcome)]
  /\ Return(r, generation_result'[r])
  /\ UNCHANGED <<req, query_embedding, retrieved_chunks, citations, calls, prompt>>

ReadNext == \E r \in Sequential : ModelAnswers(r) \/ ReadOutput(r)

ReadSpec == Init /\ [][ReadNext]_vars

\* _extract_chapter_from_path and _extract_section_from_path called on their
\* own, as the unit tests call them: on the document ids of the tests and on
\* ids made of a head, a keyword, a separator, a number and a tail
TestDocumentIds ==
  {<<"c", "h", "a", "p", "t", "e", "r", "_", "5", "_", "i", "n", "t", "r", "o", "d", "u", "c", "t", "i", "o", "n">>,
   <<"c", "h", "3", "_", "m", "e", "t", "h", "o", "d", "s">>,
   <<"i", "n", "t", "r", "o", "_", "t", "o", "_", "a", "i">>,
   <<"s", "e", "c", "t", "i", "o", "n", "_", "2", "_", "3", "_", "d", "e", "t", "a", "i", "l", "e", "d", "_", "a", "n", "a", "l", "y", "s", "i", "s">>,
   <<"c", "h", "4", "_", "s", "e", "c", "1", "_", "i", "m", "p", "l", "e", "m", "e", "n", "t", "a", "t", "i", "o", "n">>,
   <<"r", "a", "n", "d", "o", "m", "_", "d", "o", "c", "_", "p", "a", "r", "t", "_", "2">>}

LabelHeads == {<<>>, <<"c", "h", "4", "_">>}

LabelKeywords == {<<"c", "h", "a", "p", "t", "e", "r">>, <<"c", "h">>, <<"s", "e", "c", "t", "i", "o", "n">>, <<"s", "e", "c">>}

LabelSeparators == {<<>>, <<"_">>, <<" ">>}

LabelNumbers == {<<"5">>, <<"1", "2">>, <<"2", "_", "3">>}

LabelTails == {<<>>, <<"_", "x">>}

\* ids without a chapter or section keyword: "doc_123" of
\* test_format_citations, and ids with empty fragments, hyphens or no underscore
FallbackDocumentIds ==
  {<<"d", "o", "c", "_", "1", "2", "3">>,
   <<"d", "o", "c", "_">>,
   <<"p", "l", "a", "i", "n">>,
   <<"_", "x">>,
   <<"a", "_", "_", "b">>,
   <<"m", "y", "-", "d", "o", "c", "_", "s", "u", "b", "-", "p", "a", "r", "t">>}

DocumentIds ==
  TestDocumentIds
  \cup FallbackDocumentIds
  \cup {head \o kw \o sep \o num \o tail :
          head \in LabelHeads, kw \in LabelKeywords, sep \in LabelSeparators,
          num \in LabelNumbers, tail \in LabelTails}

CallExtract(r) ==
  /\ pc[r] = "idle"
  /\ UNCHANGED health_vars
  /\ \E document_id \in DocumentIds :
       retrieved_chunks' = [retrieved_chunks EXCEPT ![r] =
         << [id |-> "c1", document_id |-> document_id,
             content |-> <<"A", "I">>, chunk_index |-> 0] >>]
  /\ pc' = [pc EXCEPT ![r] = "labelling"]
  /\ UNCHANGED <<req, query_embedding, generation_result, citations, result,
                 calls, prompt, caught>>

ExtractLabels(r) ==
  /\ pc[r] = "labelling"
  /\ UNCHANGED health_vars
  /\ Call(r, <<"extract_chapter_from_path", "extract_section_from_path">>)
  /\ Return(r, [chapter |-> extract_chapter_from_path(retrieved_chunks[r][1].document_id),
                section |-> extract_section_from_path(retrieved_chunks[r][1].document_id)])
  /\ UNCHANGED <<req, query_embedding, retrieved_chunks, generation_result,
                 citations, prompt>>

LabelNext == \E r \in Sequential : CallExtract(r) \/ ExtractLabels(r)

LabelSpec == Init /\ [][LabelNext]_vars

\* format_citations called on its own, as the unit tests call it, on passages
\* whose content is empty, short, and just below, at and above the snippet limit
ContentLetters == <<"a", "b", "c", "d", "e", "f", "g">>

ContentOfLen(n) == [i \in 1..n |-> ContentLetters[(i % Len(ContentLetters)) + 1]]

ContentLens == {0, 1, SnippetLen - 1, SnippetLen, SnippetLen + 1, SnippetLen + 4}

SnippetChunks ==
  {[id |-> "c1", document_id |-> d, content |-> ContentOfLen(n),
    chunk_index |-> 0] : d \in {DocPlain, DocChapter}, n \in ContentLens}

SnippetChunkLists == UNION {[1..n -> SnippetChunks] : n \in 0..MaxHits}

CallFormatCitations(r) ==
  /\ pc[r] = "idle"
  /\ UNCHANGED health_vars
  /\ \E chunks \in SnippetChunkLists :
       retrieved_chunks' = [retrieved_chunks EXCEPT ![r] = chunks]
  /\ pc' = [pc EXCEPT ![r] = "formatting_citations"]
  /\ UNCHANGED <<req, query_embedding, generation_result, citations, result,
                 calls, prompt, caught>>

FormatCitations(r) ==
  /\ pc[r] = "formatting_citations"
  /\ UNCHANGED health_vars
  /\ Call(r, <<"format_citations">>)
  /\ citations' = [citations EXCEPT ![r] = format_citations(retrieved_chunks[r], "response_1")]
  /\ Return(r, citations'[r])
  /\ UNCHANGED <<req, query_embedding, retrieved_chunks, generation_result, prompt>>

SnippetNext == \E r \in Sequential : CallFormatCitations(r) \/ FormatCitations(r)

SnippetSpec == Init /\ [][SnippetNext]_vars

\* generate_answer called on its own, as the unit tests call it: any mode and
\* selected_text, and any passage list, the empty one included
AnswerRequests == {q \in Requests : q.question = QuestionOk}

AnswerChunkLists ==
  {chunks_of_hits(hits) : hits \in SearchResults}
  \cup {retrieve_from_selected_text(SelectedOk)}

CallGenerateAnswer(r) ==
  /\ pc[r] = "idle"
  /\ UNCHANGED health_vars
  /\ \E q \in AnswerRequests : req' = [req EXCEPT ![r] = q]
  /\ \E chunks \in AnswerChunkLists :
       retrieved_chunks' = [retrieved_chunks EXCEPT ![r] = chunks]
  /\ pc' = [pc EXCEPT ![r] = "generating"]
  /\ UNCHANGED <<query_embedding, generation_result, citations, result,
                 calls, prompt, caught>>

AnswerNext == \E r \in Sequential : CallGenerateAnswer(r) \/ Generate(r)

AnswerSpec == Init /\ [][AnswerNext]_vars

\* ------------------------------------------------------------------------
\* health_check (src/src/api/routes/health.py) and DatabaseConnection
\* (src/src/config/database.py): one coroutine of health_check per slot, on the
\* module-level db. A coroutine is suspended only at an await that waits:
\* asyncpg.create_pool inside connect, and pool.acquire / conn.fetchval

\* f"error: {str(e)}"
ErrorText(msg) == TextErrorPrefix \o msg

\* what the check of one connection may write
ConnectionStatuses == {TextConnected} \cup {ErrorText(msg) : msg \in HealthErrors}

\* the LLM and embedding checks only look for an API key
llm_service_status(s) ==
  IF Truthy(s.gemini_api_key) THEN <<"g", "e", "m", "i", "n", "i", " ", "c", "o", "n", "n", "e", "c", "t", "e", "d">>
  ELSE IF Truthy(s.openai_api_key) THEN <<"o", "p", "e", "n", "a", "i", " ", "c", "o", "n", "n", "e", "c", "t", "e", "d">>
  ELSE <<"w", "a", "r", "n", "i", "n", "g", ":", " ", "n", "o", " ", "a", "p", "i", " ", "k", "e", "y", " ", "c", "o", "n", "f", "i", "g", "u", "r", "e", "d">>

embedding_service_status(s) ==
  IF Truthy(s.cohere_api_key) THEN <<"c", "o", "h", "e", "r", "e", " ", "c", "o", "n", "n", "e", "c", "t", "e", "d">>
  ELSE IF Truthy(s.openai_embedding_api_key) THEN <<"o", "p", "e", "n", "a", "i", " ", "e", "m", "b", "e", "d", "d", "i", "n", "g", " ", "c", "o", "n", "n", "e", "c", "t", "e", "d">>
  ELSE <<"w", "a", "r", "n", "i", "n", "g", ":", " ", "n", "o", " ", "e", "m", "b", "e", "d", "d", "i", "n", "g", " ", "a", "p", "i", " ", "k", "e", "y", " ", "c", "o", "n", "f", "i", "g", "u", "r", "e", "d">>

\* all(status.startswith("connected") or status.startswith("warning") ...)
overall_status(deps) ==
  IF \A k \in DOMAIN deps :
       \/ StartsAt(deps[k], 1, TextConnected)
       \/ StartsAt(deps[k], 1, <<"w", "a", "r", "n", "i", "n", "g">>)
  THEN "healthy" ELSE "unhealthy"

\* lines 48-72 of health_check, which run without suspension once the
\* Postgres check has written its status
key_checks(deps) ==
  [deps EXCEPT !.llm_service = llm_service_status(settings),
               !.embedding_service = embedding_service_status(settings)]

\* the dict health_check returns (timestamp and response time left out)
health_body(deps) == [status |-> overall_status(deps), dependencies |-> deps]

\* health_check up to its first suspension: the Qdrant check, then
\* db.get_pool(), which returns the pool that is set or calls connect() and
\* waits for asyncpg.create_pool
StartHealthCheck(r) ==
  /\ pc[r] = "idle"
  /\ \E status \in ConnectionStatuses :
       dependencies' = [dependencies EXCEPT ![r].qdrant = status]
  /\ IF db.pool = None
     THEN /\ db' = [db EXCEPT !.connects = @ + 1]
          /\ Call(r, <<"get_collections", "get_pool", "connect">>)
          /\ pc' = [pc EXCEPT ![r] = "creating_pool"]
          /\ UNCHANGED pool
     ELSE /\ pool' = [pool EXCEPT ![r] = db.pool]
          /\ Call(r, <<"get_collections", "get_pool">>)
          /\ pc' = [pc EXCEPT ![r] = "acquiring"]
          /\ UNCHANGED db
  /\ UNCHANGED <<req, query_embedding, retrieved_chunks, generation_result,
                 citations, result, prompt, caught, settings>>

\* asyncpg.create_pool returns a new pool, named after the coroutine whose
\* connect() made it: connect assigns it to self.pool and get_pool returns
\* self.pool; or create_pool raises and the Postgres check reports the error
PoolCreated(r) ==
  /\ pc[r] = "creating_pool"
  /\ \/ /\ db' = [db EXCEPT !.pool = Some(r)]
        /\ pool' = [pool EXCEPT ![r] = Some(r)]
        /\ pc' = [pc EXCEPT ![r] = "acquiring"]
        /\ UNCHANGED <<dependencies, result, caught>>
     \/ \E msg \in HealthErrors :
          /\ dependencies' = [dependencies EXCEPT
               ![r] = key_checks([@ EXCEPT !.postgres = ErrorText(msg)])]
          /\ Return(r, health_body(dependencies'[r]))
          /\ UNCHANGED <<db, pool>>
  /\ UNCHANGED <<req, query_embedding, retrieved_chunks, generation_result,
                 citations, calls, prompt, settings>>

\* pool.acquire() and conn.fetchval("SELECT 1") return or raise; the rest of
\* health_check follows
PingDatabase(r) ==
  /\ pc[r] = "acquiring"
  /\ \E status \in ConnectionStatuses :
       dependencies' = [dependencies EXCEPT
         ![r] = key_checks([@ EXCEPT !.postgres = status])]
  /\ Return(r, health_body(dependencies'[r]))
  /\ UNCHANGED <<req, query_embedding, retrieved_chunks, generation_result,
                 citations, calls, prompt, db, settings, pool>>

HealthNext ==
  \E r \in Slots : StartHealthCheck(r) \/ PoolCreated(r) \/ PingDatabase(r)

HealthSpec == Init /\ [][HealthNext]_vars

\* the stages of a request that was submitted
Stages ==
  {"validating", "checking_ability", "embedding", "retrieving", "gating",
   "generating", "citing", "formatting", "done"}

\* every await of query_endpoint returns or raises, and the event loop then
\* runs the coroutine again: a request being processed leaves its stage
Resume(r) ==
  /\ pc[r] \notin {"idle", "done"}
  /\ \E stage \in Stages \ {pc[r]} : pc' = [pc EXCEPT ![r] = stage]

FairSpec == Spec /\ \A r \in Sequential : WF_pc(Resume(r))

\* ------------------------------------------------------------------------
\* Properties

Returned(r) == result[r].kind = "return"

Body(r) == result[r].body

Valid(q) == validate_query_request(q) = <<>>

Called(r, name) == \E i \in 1..Len(calls[r]) : calls[r][i] = name

IsRefusal(r, reason) ==
  /\ Returned(r)
  /\ Body(r).status = "insufficient_context"
  /\ "reason_code" \in DOMAIN Body(r)
  /\ Body(r).reason_code = reason

\* C1: in every response the endpoint returns, status is "success" exactly
\* when the answer is non-null, the citation list is non-empty and every
\* citation passes validate_citation_format
C1_SuccessIffGrounded ==
  \A r \in Slots :
    Returned(r) =>
      ( Body(r).status = "success"
        <=> /\ Body(r).answer # None
            /\ Body(r).citations # <<>>
            /\ \A i \in 1..Len(Body(r).citations) :
                 validate_citation_format(Body(r).citations[i]) )

C1_Witness ==
  \E r \in Slots :
    /\ Returned(r)
    /\ Body(r).status = "success"
    /\ Len(Body(r).citations) = 2
    /\ Called(r, "citation_builder")

\* C2 (as claimed): every response whose status is "insufficient_context" or
\* "error" has a null answer, an empty citation list and a null confidence
C2_Claim ==
  \A r \in Slots :
    (Returned(r) /\ Body(r).status \in {"insufficient_context", "error"}) =>
      /\ Body(r).answer = None
      /\ Body(r).citations = <<>>
      /\ Body(r).confidence_score = None

\* C3: a validated selected-text request never reaches the vector index, and
\* the passage list given to the gate, the generator and the citation builder
\* is the single passage holding selected_text verbatim
C3_SelectedTextIsolation ==
  \A r \in Slots :
    (pc[r] # "idle" /\ req[r].query_mode = "selected-text" /\ Valid(req[r])) =>
      /\ ~Called(r, "vector_search")
      /\ pc[r] \in {"gating", "generating", "citing", "formatting"} =>
           /\ Len(retrieved_chunks[r]) = 1
           /\ retrieved_chunks[r][1].content = Val(req[r].selected_text)
      /\ Called(r, "generator") =>
           /\ Len(retrieved_chunks[r]) = 1
           /\ retrieved_chunks[r][1].content = Val(req[r].selected_text)
           /\ prompt[r].context = Val(req[r].selected_text)
      /\ Called(r, "citation_builder") =>
           /\ Len(retrieved_chunks[r]) = 1
           /\ retrieved_chunks[r][1].content = Val(req[r].selected_text)

C3_Witness ==
  \E r \in Slots :
    /\ req[r].query_mode = "selected-text"
    /\ Valid(req[r])
    /\ Called(r, "retriever")
    /\ Called(r, "generator")
    /\ Called(r, "citation_builder")
    /\ pc[r] = "done"

\* C4 (as claimed): a request with validation errors is answered with the
\* HTTP 400 client error carrying the errors, never with a returned envelope
C4_Claim ==
  \A r \in Slots :
    (pc[r] = "done" /\ ~Valid(req[r])) =>
      /\ result[r].kind = "raise"
      /\ result[r].exc.type = "HTTPException"
      /\ result[r].exc.status_code = HTTP_400_BAD_REQUEST
      /\ result[r].exc.detail.details = validate_query_request(req[r])

\* C5: for a request with validation errors the endpoint calls none of the
\* embedder, the retriever, the generator or the citation builder
C5_NoCallOnInvalid ==
  \A r \in Slots :
    (pc[r] # "idle" /\ ~Valid(req[r])) => calls[r] = <<>>

C5_Witness ==
  \E r \in Slots :
    /\ pc[r] = "done"
    /\ ~Valid(req[r])
    /\ ~QuestionTooShort(req[r].question)
    /\ result[r] # NoResult

\* C6 (as claimed): when an external call (or any unexpected failure) raised,
\* the response has status "error"
C6_Claim ==
  \A r \in Slots :
    (/\ Returned(r)
     /\ caught[r] # None
     /\ Val(caught[r]).type # "HTTPException") =>
      Body(r).status = "error"

GateOutcome(r) ==
  LET chunks  == retrieved_chunks[r]
      nodocid == \E i \in 1..Len(chunks) : chunks[i].document_id = <<>>
  IN  /\ IsRefusal(r, "NO_RELEVANT_CONTEXT")' <=> chunks = <<>>
      /\ IsRefusal(r, "CITATION_FAILURE")' <=> (chunks # <<>> /\ nodocid)
      /\ pc'[r] = "generating" <=> (chunks # <<>> /\ ~nodocid)
      /\ pc'[r] # "generating" =>
           /\ pc'[r] = "done"
           /\ Returned(r)'
           /\ Body(r)'.status = "insufficient_context"
           /\ Body(r)'.answer = None
           /\ ~Called(r, "generator")'

C8_PostRetrievalGate ==
  [][\A r \in Slots : (pc[r] = "gating" /\ pc'[r] # "gating") => GateOutcome(r)]_vars

C8_Witness ==
  \E r \in Slots :
    /\ pc[r] = "done"
    /\ Len(retrieved_chunks[r]) = 2
    /\ retrieved_chunks[r][1].document_id # <<>>
    /\ retrieved_chunks[r][2].document_id = <<>>
    /\ IsRefusal(r, "CITATION_FAILURE")
    /\ ~Called(r, "generator")

\* C9 (as claimed): when the generator result has status
\* "insufficient_context" or "error" the citation builder is not called and
\* the response carries the generator's reason_code (NO_RELEVANT_CONTEXT when
\* it gave none) and explanation
C9_Claim ==
  \A r \in Slots :
    generation_result[r].status \in {"insufficient_context", "error"} =>
      /\ ~Called(r, "citation_builder")
      /\ pc[r] = "done" =>
           /\ Returned(r)
           /\ "reason_code" \in DOMAIN Body(r)
           /\ Body(r).reason_code =
                Get(generation_result[r], "reason_code", "NO_RELEVANT_CONTEXT")
           /\ "explanation" \in DOMAIN Body(r)
           /\ Body(r).explanation = generation_result[r].explanation

\* C10: whatever the request and the outcomes of the external calls, the
\* endpoint ends by returning an envelope with the fields id, query_id,
\* answer, citations, confidence_score, generation_time_ms and status; no
\* exception leaves the endpoint
EnvelopeFields ==
  {"id", "query_id", "answer", "citations", "confidence_score",
   "generation_time_ms", "status"}

DoneSuccess(r) == Returned(r) /\ Body(r).status = "success"

Refused(r) ==
  Returned(r) /\ Body(r).status = "insufficient_context" /\ caught[r] = None

Errored(r) == Returned(r) /\ (Body(r).status = "error" \/ caught[r] # None)

ExactlyOneTerminal(r) ==
  Cardinality({k \in {"done", "refused", "errored"} :
                 \/ k = "done" /\ DoneSuccess(r)
                 \/ k = "refused" /\ Refused(r)
                 \/ k = "errored" /\ Errored(r)}) = 1

C11_TerminatesOnce ==
  /\ \A r \in Slots :
       (pc[r] # "idle") ~> (pc[r] = "done" /\ ExactlyOneTerminal(r))
  /\ [][\A r \in Slots :
          result[r] # NoResult =>
            /\ pc[r] = "done"
            /\ pc'[r] = pc[r]
            /\ result'[r] = result[r]
            /\ calls'[r] = calls[r]
            /\ prompt'[r] = prompt[r]]_vars

C11_Witness ==
  \E r \in Slots :
    /\ pc[r] = "done"
    /\ Errored(r)
    /\ Called(r, "vector_search")
    /\ ~Called(r, "generator")

\* the reason codes the endpoint and its services use
ReasonCodes == {"NO_RELEVANT_CONTEXT", "CITATION_FAILURE", "ERROR"}

\* x is a str, not None (None has no length)
IsText(x) == Len(x) >= 0

RetrieverReturned(r) ==
  Called(r, "retriever") /\ pc[r] # "retrieving" /\ caught[r] = None

\* the document ids the response of request r cites
CitedDocs(r) ==
  {Body(r).citations[i].document_id : i \in 1..Len(Body(r).citations)}

\* C13: two calls with the same request, whose retrievers returned the same
\* passages and whose generators (if called) reported the same status, return
\* responses with the same status and the same set of cited document ids
C13_Idempotent ==
  \A a, b \in Slots :
    (/\ a # b
     /\ pc[a] = "done" /\ pc[b] = "done"
     /\ req[a] = req[b]
     /\ RetrieverReturned(a) /\ RetrieverReturned(b)
     /\ retrieved_chunks[a] = retrieved_chunks[b]
     /\ generation_result[a].status = generation_result[b].status) =>
      /\ Returned(a) /\ Returned(b)
      /\ Body(a).status = Body(b).status
      /\ CitedDocs(a) = CitedDocs(b)

C13_Witness ==
  \E a, b \in Slots :
    /\ a # b
    /\ pc[a] = "done" /\ pc[b] = "done"
    /\ req[a] = req[b]
    /\ RetrieverReturned(a) /\ RetrieverReturned(b)
    /\ retrieved_chunks[a] = retrieved_chunks[b]
    /\ generation_result[a].status = "success"
    /\ generation_result[b].status = "success"
    /\ Body(a).status = "success"
    /\ Cardinality(CitedDocs(b)) = 2

\* citation c is made from a passage that is in the context sent to the
\* text-generation service for request r
FromPrompt(r, c) ==
  IF prompt[r].service = "selected_text_gemini_service"
  THEN /\ c.document_id = SelectedTextDocId
       /\ c.text_snippet = text_snippet_of(prompt[r].context)
  ELSE \E j \in 1..Len(prompt[r].context) :
         /\ prompt[r].context[j].source = c.document_id
         /\ c.text_snippet = text_snippet_of(prompt[r].context[j].content)

\* C14: in every successful response, each citation's document_id and
\* text_snippet come from a passage included in the context that was sent to
\* the generator for that request
C14_CitationsFromPrompt ==
  \A r \in Slots :
    (Returned(r) /\ Body(r).status = "success") =>
      /\ Called(r, "llm")
      /\ \A i \in 1..Len(Body(r).citations) : FromPrompt(r, Body(r).citations[i])

C14_Witness ==
  \E r \in Slots :
    /\ Returned(r)
    /\ Body(r).status = "success"
    /\ prompt[r].service = "gemini_service"
    /\ Len(Body(r).citations) = 2
    /\ Body(r).citations[1].document_id # Body(r).citations[2].document_id
    /\ FromPrompt(r, Body(r).citations[2])

\* the three rules, as the claim states them
QuestionRuleViolated(q) == Len(Strip(q.question)) < 3

ModeRuleViolated(q) == q.query_mode # "book-wide" /\ q.query_mode # "selected-text"

SelectedTextRuleViolated(q) ==
  /\ q.query_mode = "selected-text"
  /\ (q.selected_text = None \/ Strip(Val(q.selected_text)) = <<>>)

\* the list validate_query_request returned at step 1 of request r: the
\* details of the HTTPException step 1 raised, or the empty list
ValidationErrors(r) ==
  IF caught[r] # None /\ Val(caught[r]).type = "HTTPException"
  THEN Val(caught[r]).detail.details
  ELSE <<>>

Occurrences(errors, m) == Cardinality({i \in 1..Len(errors) : errors[i] = m})

\* C15: the list validate_query_request returns holds exactly one message per
\* violated rule and nothing else, each rule being judged on its own
C15_OneMessagePerRule ==
  \A r \in Slots :
    pc[r] \notin {"idle", "validating"} =>
      LET errors == ValidationErrors(r)
          q      == req[r]
      IN  /\ errors = validate_query_request(q)
          /\ Occurrences(errors, ErrQuestionTooShort)
               = (IF QuestionRuleViolated(q) THEN 1 ELSE 0)
          /\ Occurrences(errors, ErrInvalidMode)
               = (IF ModeRuleViolated(q) THEN 1 ELSE 0)
          /\ Occurrences(errors, ErrSelectedTextRequired)
               = (IF SelectedTextRuleViolated(q) THEN 1 ELSE 0)
          /\ Len(errors) = Occurrences(errors, ErrQuestionTooShort)
                           + Occurrences(errors, ErrInvalidMode)
                           + Occurrences(errors, ErrSelectedTextRequired)

C15_Witness ==
  \E r \in Slots :
    /\ pc[r] = "done"
    /\ QuestionRuleViolated(req[r])
    /\ SelectedTextRuleViolated(req[r])
    /\ Len(ValidationErrors(r)) = 2

\* C16 (as claimed): retrieve_for_query called with query_mode "selected-text"
\* never calls the vector index and returns exactly one passage, whose content
\* is selected_text and whose document_id is "selected_text_session", whatever
\* the embedding and selected_text are
C16_Claim ==
  \A r \in Slots :
    (req[r].query_mode = "selected-text" /\ Called(r, "retriever")) =>
      /\ ~Called(r, "vector_search")
      /\ Len(retrieved_chunks[r]) = 1
      /\ retrieved_chunks[r][1].document_id = SelectedTextDocId
      /\ Some(retrieved_chunks[r][1].content) = req[r].selected_text

\* C17 (as claimed): for a request with query_mode "selected-text" the
\* embedder is never called
C17_Claim ==
  \A r \in Slots :
    (pc[r] # "idle" /\ req[r].query_mode = "selected-text") =>
      ~Called(r, "embedder")

\* C18 (as claimed): two runs of the same request in which the same external
\* call fails, with whatever exception messages, return identical responses
C18_Claim ==
  \A a, b \in Slots :
    (/\ a # b
     /\ pc[a] = "done" /\ pc[b] = "done"
     /\ req[a] = req[b]
     /\ calls[a] = calls[b]
     /\ caught[a] # None /\ caught[b] # None
     /\ Val(caught[a]).type = "Exception"
     /\ Val(caught[b]).type = "Exception") =>
      /\ Returned(a) /\ Returned(b)
      /\ Body(a) = Body(b)

CitationsBuilt(r) ==
  /\ Called(r, "citation_builder")
  /\ \/ pc[r] = "formatting"
     \/ Returned(r) /\ Body(r).status # "insufficient_context"

\* C20: when citation generation succeeds there is exactly one citation per
\* passage, in the order of the passages: the citation at index i (from 0) has
\* the document_id of the passage at index i, the response_id that was given
\* and the id "cit_<response_id>_<i>"
C20_OneCitationPerPassage ==
  \A r \in Slots :
    CitationsBuilt(r) =>
      /\ Len(citations[r]) = Len(retrieved_chunks[r])
      /\ \A i \in 1..Len(citations[r]) :
           /\ citations[r][i].document_id = retrieved_chunks[r][i].document_id
           /\ citations[r][i].response_id = req[r].id
           /\ citations[r][i].id = <<"cit_", req[r].id, i - 1>>
      /\ Returned(r) =>
           /\ Len(Body(r).citations) = Len(retrieved_chunks[r])
           /\ \A i \in 1..Len(Body(r).citations) :
                /\ Body(r).citations[i].document_id = retrieved_chunks[r][i].document_id
                /\ Body(r).citations[i].id = <<"cit_", req[r].id, i - 1>>

C20_Witness ==
  \E r \in Slots :
    /\ CitationsBuilt(r)
    /\ pc[r] = "formatting"
    /\ Len(citations[r]) = 2
    /\ citations[r][1].document_id # citations[r][2].document_id
    /\ citations[r][2].id = <<"cit_", req[r].id, 1>>

\* C21: citation building is all-or-nothing: when the citation of any one
\* passage fails validate_citation_format the builder raises ValueError and
\* no citation is kept, whatever the other passages give; a list is kept only
\* when every citation in it is valid
C21_AllOrNothing ==
  \A r \in Slots :
    (Called(r, "citation_builder") /\ pc[r] # "citing") =>
      LET cits == format_citations(retrieved_chunks[r], req[r].id)
          invalid == {i \in 1..Len(cits) : ~validate_citation_format(cits[i])}
      IN  /\ invalid # {} =>
               /\ citations[r] = <<>>
               /\ IsRefusal(r, "CITATION_FAILURE")
               /\ Body(r).citations = <<>>
          /\ invalid = {} => citations[r] = cits
          /\ \A i \in 1..Len(citations[r]) : validate_citation_format(citations[r][i])

C21_Witness ==
  \E r \in Slots :
    /\ Called(r, "citation_builder")
    /\ pc[r] = "done"
    /\ Len(retrieved_chunks[r]) = 2
    /\ validate_citation_format(citation_of(retrieved_chunks[r][1], 1, req[r].id))
    /\ ~validate_citation_format(citation_of(retrieved_chunks[r][2], 2, req[r].id))
    /\ citations[r] = <<>>
    /\ IsRefusal(r, "CITATION_FAILURE")

\* s is non-empty after trimming whitespace
NonEmptyTrimmed(s) == \E i \in 1..Len(s) : ~IsSpace(s[i])

\* C22: validate_citation_format returns true exactly when chapter, section,
\* file_path and text_snippet are each non-empty after trimming and
\* relevance_score is within [0.0, 1.0] inclusive
C22_ValidExactly ==
  \A r \in Slots :
    (pc[r] = "done" /\ Called(r, "validate_citation_format")) =>
      LET c == citations[r][1]
      IN  Body(r) <=>
            /\ NonEmptyTrimmed(c.chapter)
            /\ NonEmptyTrimmed(c.section)
            /\ NonEmptyTrimmed(c.file_path)
            /\ NonEmptyTrimmed(c.text_snippet)
            /\ 0 <= c.relevance_score
            /\ c.relevance_score <= MaxScore

C22_Witness ==
  \E r \in Slots :
    /\ pc[r] = "done"
    /\ Called(r, "validate_citation_format")
    /\ citations[r][1].relevance_score = MaxScore + 1
    /\ NonEmptyTrimmed(citations[r][1].chapter)
    /\ NonEmptyTrimmed(citations[r][1].section)
    /\ NonEmptyTrimmed(citations[r][1].file_path)
    /\ NonEmptyTrimmed(citations[r][1].text_snippet)
    /\ Body(r) = FALSE

\* the refusal phrases of a service, as the claim's fixed list
RefusalList(service) ==
  IF service = "selected_text_gemini_service"
  THEN SelectedTextPhrases ELSE BookWidePhrases

\* text contains phrase ph, letters compared without regard to case
ContainsIgnoringCase(text, ph) ==
  \E i \in 1..(Len(text) + 1 - Len(ph)) :
    \A k \in 1..Len(ph) : LowerChar(text[i + k - 1]) = LowerChar(ph[k])

\* generate_rag_response of request r has read a text the model returned
OutputRead(r) ==
  /\ pc[r] = "done"
  /\ "outcome" \in DOMAIN prompt[r]
  /\ ~prompt[r].outcome.raised

\* C23: a model output that contains a phrase of the refusal list, in any
\* case, gives status "insufficient_context", reason_code
\* "NO_RELEVANT_CONTEXT" and a null answer; any other non-empty output gives
\* status "success" with the trimmed output as answer and a confidence score
C23_RefusalPhrases ==
  \A r \in Slots :
    OutputRead(r) =>
      LET text == prompt[r].outcome.text
          res  == generation_result[r]
      IN  IF \E ph \in RefusalList(prompt[r].service) : ContainsIgnoringCase(text, ph)
          THEN /\ res.status = "insufficient_context"
               /\ res.reason_code = "NO_RELEVANT_CONTEXT"
               /\ res.answer = None
          ELSE text # <<>> =>
               /\ res.status = "success"
               /\ res.answer = Some(Strip(text))
               /\ res.confidence_score # None

C23_Witness ==
  \E r \in Slots :
    /\ OutputRead(r)
    /\ prompt[r].service = "gemini_service"
    /\ prompt[r].outcome.text = <<".">> \o Title(PhraseNotMentioned) \o <<" ">>
    /\ generation_result[r].status = "insufficient_context"
    /\ Body(r) = generation_result[r]

\* generate_rag_response of request r has ended after the model's API raised
ProviderFailed(r) ==
  /\ pc[r] = "done"
  /\ "outcome" \in DOMAIN prompt[r]
  /\ prompt[r].outcome.raised

\* C24: an exception raised by the text-generation provider comes back as a
\* generation result with status "error", a null answer and an explanation
\* text; it is returned to the caller, never raised
C24_ProviderErrorIsResult ==
  \A r \in Slots :
    ProviderFailed(r) =>
      /\ Returned(r)
      /\ caught[r] = None
      /\ Body(r) = generation_result[r]
      /\ Body(r).status = "error"
      /\ Body(r).answer = None
      /\ Body(r).explanation =
           <<"Error generating response: ", prompt[r].outcome.exc.msg>>

C24_Witness ==
  \E r \in Slots :
    /\ ProviderFailed(r)
    /\ prompt[r].service = "selected_text_gemini_service"
    /\ Returned(r)
    /\ Body(r).status = "error"
    /\ Body(r).reason_code = "ERROR"

\* the hit has text under one of the payload keys the retriever reads
HasText(hit) ==
  \E key \in {"content", "text", "chunk_text", "page_content"} :
    key \in DOMAIN hit.payload /\ hit.payload[key] # <<>>

\* _retrieve_book_wide of request r has returned the passages of its hits
HitsMapped(r) == pc[r] = "done" /\ result[r].kind = "search_results"

\* C25: the passages of a book-wide retrieval are the hits that have text,
\* in the order of the index; a hit without text under every recognised key is
\* dropped; there are never more passages than hits nor than top_k; when every
\* hit is dropped the list is empty
C25_PassagesInIndexOrder ==
  \A r \in Slots :
    HitsMapped(r) =>
      LET hits == result[r].points
          chunks == retrieved_chunks[r]
          kept == {i \in 1..Len(hits) : HasText(hits[i])}
          rank(i) == Cardinality({k \in kept : k <= i})
      IN  /\ Len(chunks) = Cardinality(kept)
          /\ \A i \in kept :
                /\ chunks[rank(i)].id = hits[i].id
                /\ \E key \in DOMAIN hits[i].payload :
                     chunks[rank(i)].content = hits[i].payload[key]
                /\ chunks[rank(i)].content # <<>>
          /\ Len(chunks) <= Len(hits)
          /\ Len(chunks) <= TopK
          /\ kept = {} => chunks = <<>>

C25_Witness ==
  \E r \in Slots :
    /\ HitsMapped(r)
    /\ result[r].points = <<HitNoContent, HitTextKey>>
    /\ Len(retrieved_chunks[r]) = 1
    /\ retrieved_chunks[r][1].id = HitTextKey.id

\* the stages of query_endpoint in the order of its code
StageOrder ==
  <<"validating", "checking_ability", "embedding", "retrieving", "gating",
    "generating", "citing", "formatting">>

StageRank(stage) ==
  IF stage = "idle" THEN 0
  ELSE CHOOSE i \in 1..Len(StageOrder) : StageOrder[i] = stage

ExternalCalls ==
  {"embedder", "embedding_api", "retriever", "vector_search", "generator", "llm"}

\* the position in calls[r] of the only call of name
CallIndex(r, name) == CHOOSE i \in 1..Len(calls[r]) : calls[r][i] = name

\* C26: a request moves from a stage to the next one of the fixed order or
\* ends; a request that ended stays ended; the embedder, the retriever and the
\* generator are each called at most once, in this order, each one after the
\* call before it has returned; a call that failed ends the request
C26_StagesInOrder ==
  [][\A r \in Slots :
       /\ pc[r] = "done" => pc'[r] = "done"
       /\ (pc[r] # "done" /\ pc'[r] # pc[r]) =>
            \/ pc'[r] = "done"
            \/ StageRank(pc'[r]) = StageRank(pc[r]) + 1
       /\ calls'[r] # calls[r] => pc'[r] # pc[r]
       /\ \A name \in ExternalCalls : Occurrences(calls'[r], name) <= 1
       /\ Called(r, "retriever")' =>
            /\ Called(r, "embedder")'
            /\ CallIndex(r, "embedder")' < CallIndex(r, "retriever")'
       /\ Called(r, "generator")' =>
            /\ Called(r, "retriever")'
            /\ CallIndex(r, "retriever")' < CallIndex(r, "generator")'
       /\ (caught'[r] # None \/ result'[r].kind = "raise") => pc'[r] = "done"
    ]_vars

C26_Witness ==
  \E r \in Slots :
    /\ pc[r] = "done"
    /\ Returned(r)
    /\ Body(r).status = "success"
    /\ \A name \in ExternalCalls : Occurrences(calls[r], name) = 1
    /\ CallIndex(r, "embedder") < CallIndex(r, "retriever")
    /\ CallIndex(r, "retriever") < CallIndex(r, "generator")

\* request r ends in this step with a response of status "insufficient_context"
EndsInRefusal(r) ==
  /\ pc[r] # "done"
  /\ pc'[r] = "done"
  /\ result'[r].kind = "return"
  /\ result'[r].body.status = "insufficient_context"

\* C27: a response with status "insufficient_context" is produced only from
\* the gating, generating or citing stage, after retrieval has completed; the
\* validating and embedding stages never end in a refusal
C27_Claim ==
  [][\A r \in Slots :
       EndsInRefusal(r) =>
         /\ pc[r] \in {"gating", "generating", "citing"}
         /\ Called(r, "retriever")
    ]_vars

\* everything the coroutine of request r holds
Local(r) ==
  <<pc[r], req[r], query_embedding[r], retrieved_chunks[r],
    generation_result[r], citations[r], result[r], calls[r], prompt[r],
    caught[r]>>

\* the response of request r processed alone: the one its own request, its
\* own passages and its own generation result lead to
SoloBody(r) ==
  IF caught[r] # None
  THEN format_refusal_response(req[r].id, "ERROR",
         <<"An error occurred while processing your request: ", Val(caught[r]).msg>>)
  ELSE IF ~Called(r, "retriever")
  THEN format_refusal_response(req[r].id, "NO_RELEVANT_CONTEXT",
         "The query does not contain enough information to generate an answer.")
  ELSE IF ~Called(r, "generator")
  THEN format_refusal_response(req[r].id,
         Val(check_refusal_conditions(retrieved_chunks[r])).reason_code,
         Val(check_refusal_conditions(retrieved_chunks[r])).explanation)
  ELSE IF ~Called(r, "citation_builder")
  THEN format_refusal_response(req[r].id,
         generation_result[r].reason_code, generation_result[r].explanation)
  ELSE LET built == generate_citation_for_response(retrieved_chunks[r], req[r].id)
       IN  IF built.raised
           THEN format_refusal_response(req[r].id, "CITATION_FAILURE",
                  <<"Citations could not be generated: ", built.exc.msg>>)
           ELSE format_response_with_citations(
                  [id |-> <<"resp_", req[r].id>>,
                   query_id |-> req[r].id,
                   answer |-> generation_result[r].answer,
                   citations |-> built.value,
                   retrieved_chunks |-> [i \in 1..Len(retrieved_chunks[r]) |->
                                           retrieved_chunks[r][i].id],
                   confidence_score |-> Get(generation_result[r], "confidence_score", Some(0)),
                   generation_time_ms |-> Body(r).generation_time_ms,
                   status |-> generation_result[r].status])

\* C28: with two requests in flight, a step of one request changes nothing
\* the other one holds, and the response of each request is the one it gets
\* when processed alone, whatever the interleaving
C28_Isolation ==
  /\ [](\A r \in Slots : (pc[r] = "done" /\ Returned(r)) => Body(r) = SoloBody(r))
  /\ [][\A r \in Slots : pc'[r] = pc[r] => Local(r)' = Local(r)]_vars

C28_Witness ==
  /\ \A r \in Slots : pc[r] = "done" /\ Returned(r) /\ Body(r).status = "success"
  /\ calls[1] # calls[2]
  /\ retrieved_chunks[1] # retrieved_chunks[2]
  /\ Body(1).citations # Body(2).citations
  /\ Body(1).answer # Body(2).answer

\* C29: every response carries the id of its request in query_id; its own id
\* is "resp_" followed by the request id when the status is "success" and
\* "ref_" followed by the request id when it is a refusal
C29_IdsEchoed ==
  \A r \in Slots :
    (pc[r] = "done" /\ Returned(r)) =>
      /\ Body(r).query_id = req[r].id
      /\ Body(r).status = "success" => Body(r).id = <<"resp_", req[r].id>>
      /\ Body(r).status = "insufficient_context" => Body(r).id = <<"ref_", req[r].id>>

C29_Witness ==
  /\ \A r \in Slots : pc[r] = "done" /\ Returned(r)
  /\ Body(1).status = "success"
  /\ Body(1).id = <<"resp_", "q1">>
  /\ Body(2).status = "insufficient_context"
  /\ Body(2).id = <<"ref_", "q2">>
  /\ Body(2).query_id = "q2"

\* the position of the number that follows keyword kw at position i of s,
\* directly or after one underscore; 0 when there is none
NumberAfter(s, i, kw) ==
  LET at == i + Len(kw)
  IN  IF ~StartsAt(s, i, kw) THEN 0
      ELSE IF at <= Len(s) /\ s[at] \in Digits THEN at
      ELSE IF at + 1 <= Len(s) /\ s[at] = "_" /\ s[at + 1] \in Digits THEN at + 1
      ELSE 0

\* the positions of s where one of the keywords is followed by a number
PatternAt(s, kws) ==
  {i \in 1..Len(s) : \E kw \in kws : NumberAfter(s, i, kw) > 0}

\* the position of the number of the leftmost such keyword
NumberOf(s, kws) ==
  LET i == SetMin(PatternAt(s, kws))
  IN  SetMax({NumberAfter(s, i, kw) : kw \in kws})

\* the digits at position at, and a second number N_M written as N.M
NumberLabel(s, at, twoPart) ==
  LET n    == DigitRun(s, at)
      next == at + Len(n)
  IN  IF twoPart /\ next + 1 <= Len(s) /\ s[next] = "_" /\ s[next + 1] \in Digits
      THEN n \o <<".">> \o DigitRun(s, next + 1)
      ELSE n

LabelsExtracted(r) == pc[r] = "done" /\ Called(r, "extract_chapter_from_path")

\* C30: a document id in which "chapter" or "ch" is followed by a number N,
\* directly or after an underscore, gets the chapter label "Chapter N"; one in
\* which "section" or "sec" is followed by N, or by N and M separated by an
\* underscore, gets the section label "Section N" or "Section N.M"
C30_Claim ==
  \A r \in Slots :
    LabelsExtracted(r) =>
      LET s == Lower(retrieved_chunks[r][1].document_id)
          chapterKws == {ChapterKeywords[k] : k \in 1..Len(ChapterKeywords)}
          sectionKws == {SectionKeywords[k] : k \in 1..Len(SectionKeywords)}
      IN  /\ PatternAt(s, chapterKws) # {} =>
                Body(r).chapter =
                  <<"C", "h", "a", "p", "t", "e", "r", " ">>
                  \o NumberLabel(s, NumberOf(s, chapterKws), FALSE)
          /\ PatternAt(s, sectionKws) # {} =>
                Body(r).section =
                  <<"S", "e", "c", "t", "i", "o", "n", " ">>
                  \o NumberLabel(s, NumberOf(s, sectionKws), TRUE)

\* the positions of the underscores of id
Underscores(id) == {i \in 1..Len(id) : id[i] = "_"}

\* the fragment of id that starts at position i and ends before the next
\* underscore, hyphens written as spaces, in title case
FragmentLabel(id, i) ==
  LET stop == SetMin({j \in i..(Len(id) + 1) : j = Len(id) + 1 \/ id[j] = "_"})
      frag == SubSeq(id, i, stop - 1)
  IN  Title([k \in 1..Len(frag) |-> IF frag[k] = "-" THEN " " ELSE frag[k]])

\* the positions after the first underscore at which a non-empty fragment starts
LaterFragments(id) ==
  {i \in 2..Len(id) : id[i - 1] = "_" /\ id[i] # "_"}

UnknownChapter ==
  <<"U", "n", "k", "n", "o", "w", "n", " ", "C", "h", "a", "p", "t", "e", "r">>

General == <<"G", "e", "n", "e", "r", "a", "l">>

NoChapterPattern(id) == KeywordNumberMatches(Lower(id), ChapterKeywords) = {}

NoSectionPattern(id) == KeywordNumberMatches(Lower(id), SectionKeywords) = {}

CitationsFormatted(r) == pc[r] = "done" /\ Called(r, "format_citations")

\* C32: the text_snippet of a citation is the content of its passage when the
\* content has at most 200 characters, and its first 200 characters followed
\* by "..." otherwise; it has at most 203 characters and is non-empty when
\* the content is non-empty
C32_SnippetBounded ==
  \A r \in Slots :
    CitationsFormatted(r) =>
      /\ Len(Body(r)) = Len(retrieved_chunks[r])
      /\ \A i \in 1..Len(Body(r)) :
           LET content == retrieved_chunks[r][i].content
               snippet == Body(r)[i].text_snippet
           IN  /\ Len(content) <= 200 => snippet = content
               /\ Len(content) > 200 =>
                    /\ Len(snippet) = 203
                    /\ \A k \in 1..200 : snippet[k] = content[k]
                    /\ \A k \in 201..203 : snippet[k] = "."
               /\ Len(snippet) <= 203
               /\ content # <<>> => snippet # <<>>

C32_Witness ==
  \E r \in Slots :
    /\ CitationsFormatted(r)
    /\ Len(Body(r)) = 2
    /\ Len(retrieved_chunks[r][1].content) = 200
    /\ Len(Body(r)[1].text_snippet) = 200
    /\ Len(retrieved_chunks[r][2].content) = 201
    /\ Len(Body(r)[2].text_snippet) = 203

\* generate_answer of request r has returned
Answered(r) == Called(r, "generator") /\ pc[r] # "generating"

\* C33: generate_answer called with an empty passage list returns a refusal
\* result (status "insufficient_context", reason_code "NO_RELEVANT_CONTEXT",
\* null answer, null confidence) and calls no text-generation service
C33_NoChunksNoGeneration ==
  \A r \in Slots :
    (Answered(r) /\ retrieved_chunks[r] = <<>>) =>
      /\ generation_result[r].status = "insufficient_context"
      /\ generation_result[r].reason_code = "NO_RELEVANT_CONTEXT"
      /\ generation_result[r].answer = None
      /\ generation_result[r].confidence_score = None
      /\ ~Called(r, "llm")
      /\ prompt[r] = NoPrompt

C33_Witness ==
  \E r \in Slots :
    /\ Answered(r)
    /\ retrieved_chunks[r] = <<>>
    /\ req[r].query_mode = "selected-text"
    /\ req[r].selected_text = Some(SelectedOk)
    /\ generation_result[r].status = "insufficient_context"
    /\ calls[r] = <<"generator">>

\* the request asks for the selected-text mode and carries a selected text
SelectedTextGiven(q) ==
  /\ q.query_mode = "selected-text"
  /\ q.selected_text # None
  /\ Val(q.selected_text) # <<>>

Validated(r) == pc[r] \notin {"idle", "validating"}

\* check_refusal_conditions of request r has returned
Gated(r) == Called(r, "retriever") /\ caught[r] = None /\ pc[r] # "gating"

\* what the gate answered: nothing, or a reason and an explanation
GateAnswer(r) ==
  IF Called(r, "generator") \/ pc[r] # "done"
  THEN [refused |-> FALSE, reason_code |-> "", explanation |-> ""]
  ELSE [refused |-> TRUE, reason_code |-> Body(r).reason_code,
        explanation |-> Body(r).explanation]

\* C35: the steps of validate_query_request and check_refusal_conditions
\* call no service and leave the request and the passages as they were; two
\* requests with the same question, mode and selected_text get the same
\* validation errors, and two requests with the same passages get the same
\* answer of the gate
C35_GatePure ==
  /\ [][\A r \in Slots :
          (pc[r] \in {"validating", "gating"} /\ pc'[r] # pc[r]) =>
            /\ req'[r] = req[r]
            /\ retrieved_chunks'[r] = retrieved_chunks[r]
            /\ query_embedding'[r] = query_embedding[r]
            /\ calls'[r] = calls[r]
      ]_vars
  /\ [](\A r, s \in Slots :
          /\ ( /\ Validated(r) /\ Validated(s)
               /\ req[r].question = req[s].question
               /\ req[r].query_mode = req[s].query_mode
               /\ req[r].selected_text = req[s].selected_text )
             => ValidationErrors(r) = ValidationErrors(s)
          /\ (Gated(r) /\ Gated(s) /\ retrieved_chunks[r] = retrieved_chunks[s])
             => GateAnswer(r) = GateAnswer(s))

C35_Witness ==
  /\ \A r \in Slots : Gated(r) /\ pc[r] = "done"
  /\ retrieved_chunks[1] = retrieved_chunks[2]
  /\ Len(retrieved_chunks[1]) = 1
  /\ GateAnswer(1).refused
  /\ GateAnswer(1).reason_code = "CITATION_FAILURE"
  /\ GateAnswer(2) = GateAnswer(1)

\* C36: a refusal response reports an empty retrieved_chunks list and
\* generation_time_ms 0, also when passages were retrieved; only a response
\* of status "success" lists passage identifiers, and it lists those of the
\* passages consulted, in retrieval order, one per citation
C36_Claim ==
  \A r \in Slots :
    (pc[r] = "done" /\ Returned(r)) =>
      /\ Body(r).status = "insufficient_context" =>
           /\ Body(r).retrieved_chunks = <<>>
           /\ Body(r).generation_time_ms = 0
      /\ Body(r).retrieved_chunks # <<>> => Body(r).status = "success"
      /\ Body(r).status = "success" =>
           /\ Len(Body(r).retrieved_chunks) = Len(retrieved_chunks[r])
           /\ \A i \in 1..Len(retrieved_chunks[r]) :
                Body(r).retrieved_chunks[i] = retrieved_chunks[r][i].id
           /\ Len(Body(r).retrieved_chunks) = Len(Body(r).citations)

\* C37: step 2 never refuses: a request that passed validate_query_request
\* passes validate_generation_ability, the step after validation leads to the
\* embedding stage without a response, and every request that passed
\* validation reaches the embedding stage
C37_AbilityCheckNeverRefuses ==
  /\ [](\A r \in Slots :
          pc[r] \notin {"idle", "validating"} =>
            (Valid(req[r]) => Len(Strip(req[r].question)) >= 3))
  /\ [][\A r \in Slots :
          (pc[r] = "checking_ability" /\ pc'[r] # pc[r]) =>
            /\ Valid(req[r])
            /\ pc'[r] = "embedding"
            /\ result'[r] = NoResult
      ]_vars
  /\ \A r \in Sequential : (pc[r] = "checking_ability") ~> (pc[r] = "embedding")

C37_Witness ==
  \E r \in Slots :
    /\ pc[r] = "embedding"
    /\ Valid(req[r])
    /\ req[r].question = QuestionOk
    /\ req[r].query_mode = "selected-text"
    /\ result[r] = NoResult

\* the passage list of request r is one the gate lets through: it is not
\* empty and every passage has a document_id
GateLetsThrough(r) ==
  /\ retrieved_chunks[r] # <<>>
  /\ \A i \in 1..Len(retrieved_chunks[r]) : retrieved_chunks[r][i].document_id # <<>>

\* C38: for a passage list that the gate lets through and whose passages
\* have a non-empty content, generate_citation_for_response succeeds: the
\* citation builder, once called, gives one valid citation per passage and
\* the request is not refused with CITATION_FAILURE
C38_Claim ==
  \A r \in Slots :
    ( /\ Called(r, "citation_builder")
      /\ pc[r] # "citing"
      /\ GateLetsThrough(r)
      /\ \A i \in 1..Len(retrieved_chunks[r]) : retrieved_chunks[r][i].content # <<>> )
    => /\ ~IsRefusal(r, "CITATION_FAILURE")
       /\ Len(citations[r]) = Len(retrieved_chunks[r])
       /\ \A i \in 1..Len(citations[r]) :
            /\ Strip(citations[r][i].chapter) # <<>>
            /\ Strip(citations[r][i].section) # <<>>
            /\ Strip(citations[r][i].file_path) # <<>>

\* C39: get_pool creates at most one pool per process: with several
\* coroutines calling it while the pool is unset, connect runs once and every
\* caller receives the same pool
C39_Claim ==
  /\ db.connects <= 1
  /\ \A r, s \in Slots : (pool[r] # None /\ pool[s] # None) => pool[r] = pool[s]

\* a health_check that returned, and what it returned
HealthReturned(r) == pc[r] = "done" /\ result[r].kind = "return" /\ "dependencies" \in DOMAIN result[r].body

\* every dependency check succeeded: the vector store and the database
\* answered, an LLM key and an embedding key are configured
AllChecksSucceeded(r) ==
  /\ result[r].body.dependencies.qdrant = TextConnected
  /\ result[r].body.dependencies.postgres = TextConnected
  /\ Truthy(settings.gemini_api_key) \/ Truthy(settings.openai_api_key)
  /\ Truthy(settings.cohere_api_key) \/ Truthy(settings.openai_embedding_api_key)

\* some check reported an error
SomeCheckFailed(r) ==
  \E k \in DOMAIN result[r].body.dependencies :
    StartsAt(result[r].body.dependencies[k], 1, TextErrorPrefix)

\* C40: the health endpoint reports "healthy" whenever every dependency check
\* succeeds and "unhealthy" only when at least one check reported an error
C40_Claim ==
  \A r \in Slots :
    HealthReturned(r) =>
      /\ AllChecksSucceeded(r) => result[r].body.status = "healthy"
      /\ result[r].body.status = "unhealthy" => SomeCheckFailed(r)

====
